---------------------------- MODULE Spec2Model ----------------------------
(***************************************************************************)
(* Model of the Aim-TTi TGF4000 device transport                           *)
(* (Tgf4000EthernetInterface, tgf4000_devif.py) and of the command table   *)
(* of Tgf4000Interface (tgf4000.py).                                       *)
(*                                                                         *)
(* Text is modelled as a sequence of symbols.  A symbol is one character,  *)
(* except that the two marker texts the identification check looks for    *)
(* are one symbol each: "M" stands for 'THURLBY THANDAR' and "T" for       *)
(* 'TGF4'.  "x" is any other printable character.                          *)
(*                                                                         *)
(* Bytes received from the device are kept as runs: a run                  *)
(* [req, kind, lo, hi] is the bytes lo..hi of the reply of kind `kind`     *)
(* that the device produced for request number req.  A sequence of runs    *)
(* is kept in normal form: neighbouring runs that continue each other are  *)
(* merged, so two byte strings are equal iff their run sequences are.      *)
(***************************************************************************)
EXTENDS Integers, Sequences, FiniteSets, TLC

VARIABLES
    hostname,            \* self.hostname
    port,                \* self.port
    is_connection_open,  \* self._is_connection_open
    sock,                \* self._sock: 0 is None, else an index into socks
    socks,               \* every socket object created so far, with its state
    rxbuf,               \* bytes that arrived on the connection and were not yet read
    inflight,            \* replies the device produced that did not arrive yet
    peer,                \* "up" or "closed": whether the device closed the connection
    nreq,                \* number of command lines put on a socket so far
    call,                \* the last completed call: operation, arguments, outcome
    settings,            \* CS_SETTINGS[device_id] of the TGF4000 and of the PMX-A
    registry,            \* the services registered in the service registry
    server,              \* the Tgf4000ControlServer process
    proxy,               \* the last proxy construction or activity check and its outcome
    tgf4000_sim,         \* the fields of a Tgf4000Simulator; last: its last connection call
    pmx_a_sim,           \* the fields of a PmxASimulator; last: its last connection call
    sim_call,            \* the last completed call on a simulator or controller
    array,               \* ArbData.array
    block,               \* the last result of ArbData.string and the array it was made from
    restored,            \* the last array read back from a block or from bytes
    response,            \* a response of the device, as handed to the parse functions
    parsed               \* the last call of a parse function and its outcome

transport == <<hostname, port, is_connection_open, sock, socks, rxbuf, inflight, peer, nreq, call>>
services == <<settings, registry, server, proxy>>
simulators == <<tgf4000_sim, pmx_a_sim, sim_call>>
arbdata == <<array, block, restored>>
parsing == <<response, parsed>>
vars == <<transport, services, simulators, arbdata, parsing>>

\* The parts of the system a specification does not exercise stay as constructed.
NoTransport ==
    /\ hostname = "None"
    /\ port = "None"
    /\ is_connection_open = FALSE
    /\ sock = 0
    /\ socks = <<>>
    /\ rxbuf = <<>>
    /\ inflight = <<>>
    /\ peer = "up"
    /\ nreq = 0
    /\ call = [op |-> "__init__"]

NoServices ==
    /\ settings = [tgf4000 |-> <<>>, pmx_a |-> <<>>]
    /\ registry = {}
    /\ server = [state |-> "absent", service_type |-> "None", log |-> <<>>]
    /\ proxy = [op |-> "none"]

NoSimulators ==
    /\ tgf4000_sim = [_is_connected |-> TRUE, channel |-> -1, last |-> "none"]
    /\ pmx_a_sim = [_is_connected |-> TRUE, last |-> "none"]
    /\ sim_call = [op |-> "__init__"]

NoArbData ==
    /\ array = <<>>
    /\ block = [array |-> <<>>, string |-> <<>>]
    /\ restored = [op |-> "none"]

NoParsing ==
    /\ response = <<>>
    /\ parsed = [op |-> "none"]

\* Largest number of command lines the model sends.
MaxCmds == 4
\* Largest number of socket objects the model creates.
MaxSocks == 2
\* Largest number of points of an ARB array.
MaxPoints == 5
\* Largest number of bytes of a response handed to the parse functions.
MaxResponse == 5

-----------------------------------------------------------------------------
(* Bytes as runs *)

\* buf_size of read()
BufSize == 2048
\* range(100) of read()
MaxRecv == 100

LF == "\n"
CR == "\r"
Whitespace == {" ", CR, LF}

\* The replies a device can give.  Lengths are in symbols.
ShortBody(kind) ==
    CASE kind = "idn_ok"    -> <<"M", ",", " ", "T", ",", " ", "x", CR, LF>>
      [] kind = "idn_other" -> <<"x", ",", " ", "x", CR, LF>>
      [] kind = "value"     -> <<"x", CR, LF>>
      [] kind = "crlf"      -> <<CR, LF>>

PaddedKinds == {"full", "long", "long2"}
ReplyLen(kind) ==
    CASE kind = "full"  -> BufSize
      [] kind = "long"  -> BufSize + 1
      [] kind = "long2" -> 2 * BufSize + 1
      [] OTHER          -> Len(ShortBody(kind))

\* The i-th symbol of a reply: padded replies are printable text ended by CR LF.
ByteAt(kind, i) ==
    IF kind \in PaddedKinds
    THEN IF i = ReplyLen(kind) THEN LF
         ELSE IF i = ReplyLen(kind) - 1 THEN CR ELSE "x"
    ELSE ShortBody(kind)[i]

RunLen(r) == r.hi - r.lo + 1

RECURSIVE BytesLen(_)
BytesLen(b) == IF b = <<>> THEN 0 ELSE RunLen(Head(b)) + BytesLen(Tail(b))

\* a + b on byte strings
Concat(a, b) ==
    IF a = <<>> THEN b
    ELSE IF b = <<>> THEN a
    ELSE LET l == a[Len(a)]
             f == b[1]
         IN IF l.req = f.req /\ l.kind = f.kind /\ l.hi + 1 = f.lo
            THEN SubSeq(a, 1, Len(a) - 1) \o <<[l EXCEPT !.hi = f.hi]>> \o Tail(b)
            ELSE a \o b

\* b[:n]
RECURSIVE TakeBytes(_, _)
TakeBytes(b, n) ==
    IF n = 0 \/ b = <<>> THEN <<>>
    ELSE IF RunLen(Head(b)) <= n
         THEN <<Head(b)>> \o TakeBytes(Tail(b), n - RunLen(Head(b)))
         ELSE <<[Head(b) EXCEPT !.hi = Head(b).lo + n - 1]>>

\* b[n:]
RECURSIVE DropBytes(_, _)
DropBytes(b, n) ==
    IF n = 0 \/ b = <<>> THEN b
    ELSE IF RunLen(Head(b)) <= n
         THEN DropBytes(Tail(b), n - RunLen(Head(b)))
         ELSE <<[Head(b) EXCEPT !.lo = Head(b).lo + n]>> \o Tail(b)

\* The whole reply of kind `kind` to request `req`.
WholeReply(req, kind) == <<[req |-> req, kind |-> kind, lo |-> 1, hi |-> ReplyLen(kind)]>>

\* b"\r\n", made by read() itself: it belongs to no request.
CRLF == WholeReply(0, "crlf")

\* str.rstrip(): trailing whitespace removed.
RECURSIVE RStrip(_)
RStrip(b) ==
    IF b = <<>> THEN b
    ELSE LET l == b[Len(b)]
         IN IF ByteAt(l.kind, l.hi) \in Whitespace
            THEN IF l.lo = l.hi
                 THEN RStrip(SubSeq(b, 1, Len(b) - 1))
                 ELSE RStrip(SubSeq(b, 1, Len(b) - 1) \o <<[l EXCEPT !.hi = l.hi - 1]>>)
            ELSE b

\* The symbols of a byte string.
RECURSIVE Text(_)
Text(b) ==
    IF b = <<>> THEN <<>>
    ELSE LET r == Head(b)
         IN [i \in 1..RunLen(r) |-> ByteAt(r.kind, r.lo + i - 1)] \o Text(Tail(b))

-----------------------------------------------------------------------------
(* Commands and the device *)

IDENTIFICATION_QUERY == <<"*IDN", "?">>

EndsWith(s, c) == s # <<>> /\ s[Len(s)] = c

\* Terminate with the test of the command's ending left out.
TerminateAlways(command) == command \o <<LF>>

\* command += "\n" if not command.endswith("\n") else ""
Terminate(command) == IF EndsWith(command, LF) THEN command ELSE command \o <<LF>>

\* The instrument answers a command line that ends with a question mark.
Line(data) == IF EndsWith(data, LF) THEN SubSeq(data, 1, Len(data) - 1) ELSE data
IsQuery(data) == EndsWith(Line(data), "?")

\* What the instrument (or whatever listens on the port) can answer.
KindsFor(data) ==
    IF ~IsQuery(data) THEN {}
    ELSE IF Line(data) = IDENTIFICATION_QUERY THEN {"idn_ok", "idn_other"}
    ELSE {"value", "full", "long"}

-----------------------------------------------------------------------------
(* The interface object together with its connection, as one record *)

World ==
    [open |-> is_connection_open, sock |-> sock, socks |-> socks, rx |-> rxbuf,
     inflight |-> inflight, peer |-> peer, nreq |-> nreq,
     sent |-> <<>>, trace |-> <<>>]

SockState(w) == IF w.sock = 0 THEN "none" ELSE w.socks[w.sock]

\* The next reply in flight arrives in the receive buffer.
Deliver(w) ==
    [w EXCEPT !.rx = Concat(w.rx, WholeReply(Head(w.inflight).req, Head(w.inflight).kind)),
              !.inflight = Tail(w.inflight)]

\* self._sock.sendall(command.encode()): the outcomes, exc being the Python
\* exception raised, "none" when the bytes were sent.
SendAll(w, data) ==
    CASE SockState(w) = "none" -> {[w |-> w, exc |-> "AttributeError"]}
      [] SockState(w) \in {"created", "closed"} -> {[w |-> w, exc |-> "OSError"]}
      [] OTHER ->
           LET sentw == [w EXCEPT !.nreq = w.nreq + 1,
                                  !.sent = Append(w.sent, data)]
           IN IF w.peer = "closed"
              THEN {[w |-> w, exc |-> "OSError"], [w |-> sentw, exc |-> "none"]}
              ELSE IF KindsFor(data) = {}
                   THEN {[w |-> sentw, exc |-> "none"]}
                   ELSE {[w |-> [sentw EXCEPT !.inflight =
                                    Append(w.inflight, [req |-> w.nreq + 1, kind |-> k])],
                          exc |-> "none"] : k \in KindsFor(data)}

\* self._sock.recv(buf_size) with the read timeout set: the bytes returned, or
\* a timeout.  Replies in flight may arrive before the call returns.
RECURSIVE Recv(_)
Recv(w) ==
    (IF w.rx # <<>>
     THEN {[w |-> [w EXCEPT !.rx = DropBytes(w.rx, BufSize)],
            data |-> TakeBytes(w.rx, BufSize), timeout |-> FALSE]}
     ELSE IF w.peer = "closed" /\ w.inflight = <<>>
          THEN {[w |-> w, data |-> <<>>, timeout |-> FALSE]}
          ELSE {[w |-> w, data |-> <<>>, timeout |-> TRUE]})
    \cup
    (IF w.inflight # <<>> THEN Recv(Deliver(w)) ELSE {})

\* The for loop of read(): the outcomes after iteration idx, `data` being the
\* last chunk received and `all` everything received so far.
RECURSIVE ReadLoop(_, _, _, _, _)
ReadLoop(w, idx, data, n_total, all) ==
    IF idx = MaxRecv
    THEN {[w |-> w, exc |-> "none", ret |-> data, n_total |-> n_total, all |-> all,
           nrecv |-> idx, timedout |-> FALSE]}
    ELSE UNION {
           IF r.timeout
           THEN {[w |-> r.w, exc |-> "none", ret |-> CRLF, n_total |-> n_total, all |-> all,
                  nrecv |-> idx, timedout |-> TRUE]}
           ELSE IF BytesLen(r.data) < BufSize
                THEN {[w |-> r.w, exc |-> "none", ret |-> r.data,
                       n_total |-> n_total + BytesLen(r.data),
                       all |-> Concat(all, r.data), nrecv |-> idx + 1, timedout |-> FALSE]}
                ELSE ReadLoop(r.w, idx + 1, r.data, n_total + BytesLen(r.data),
                              Concat(all, r.data))
           : r \in Recv(w) }

NoRead(w, exc) ==
    [w |-> w, exc |-> exc, ret |-> <<>>, n_total |-> 0, all |-> <<>>, nrecv |-> 0,
     timedout |-> FALSE]

\* Tgf4000EthernetInterface.read
Read(w) ==
    CASE SockState(w) = "none" -> {NoRead(w, "AttributeError")}
      [] SockState(w) \in {"created", "closed"} -> {NoRead(w, "OSError")}
      [] OTHER -> ReadLoop(w, 0, <<>>, 0, <<>>)

-----------------------------------------------------------------------------
(* Exceptions *)

\* The Python classes an exception is an instance of.
Classes(exc) ==
    CASE exc = "ConnectionRefusedError" -> {exc, "ConnectionError", "OSError", "Exception"}
      [] exc = "TimeoutError"           -> {exc, "OSError", "Exception"}
      [] exc = "gaierror"               -> {exc, "OSError", "Exception"}
      [] exc = "herror"                 -> {exc, "OSError", "Exception"}
      [] exc = "OSError"                -> {exc, "Exception"}
      [] exc = "DeviceConnectionError"  -> {exc, "DeviceError", "Exception"}
      [] exc = "DeviceTimeoutError"     -> {exc, "DeviceError", "Exception"}
      [] OTHER                          -> {exc, "Exception"}

\* A try statement: the exception that leaves it when exc is raised inside,
\* handlers being its except clauses <<class caught, exception raised>> in order.
RECURSIVE Translate(_, _)
Translate(exc, handlers) ==
    IF handlers = <<>> THEN exc
    ELSE IF Head(handlers)[1] \in Classes(exc) THEN Head(handlers)[2]
    ELSE Translate(exc, Tail(handlers))

\* ConnectHandlers with the OSError clause written first.
ConnectHandlersOSErrorFirst ==
    << <<"OSError", "DeviceConnectionError">>,
       <<"ConnectionRefusedError", "DeviceConnectionError">>,
       <<"TimeoutError", "DeviceTimeoutError">>,
       <<"gaierror", "DeviceConnectionError">>,
       <<"herror", "DeviceConnectionError">> >>

\* The except clauses of connect() around socket.connect.
ConnectHandlers ==
    << <<"ConnectionRefusedError", "DeviceConnectionError">>,
       <<"TimeoutError", "DeviceTimeoutError">>,
       <<"gaierror", "DeviceConnectionError">>,
       <<"herror", "DeviceConnectionError">>,
       <<"OSError", "DeviceConnectionError">> >>

\* SendHandlers with the AttributeError always raised again.
SendHandlersReraise(w) ==
    << <<"TimeoutError", "DeviceTimeoutError">>,
       <<"OSError", "DeviceConnectionError">>,
       <<"ConnectionError", "DeviceConnectionError">>,
       <<"AttributeError", "AttributeError">> >>

\* The except clauses of write() and trans(); socket.timeout is TimeoutError and
\* socket.error is OSError.  An AttributeError is re-raised unless the
\* connection is not open.
SendHandlers(w) ==
    << <<"TimeoutError", "DeviceTimeoutError">>,
       <<"OSError", "DeviceConnectionError">>,
       <<"ConnectionError", "DeviceConnectionError">>,
       <<"AttributeError", IF ~w.open THEN "DeviceConnectionError" ELSE "AttributeError">> >>

\* What socket.connect can do.
ConnectResults ==
    {"ok", "ConnectionRefusedError", "TimeoutError", "gaierror", "herror", "OSError"}

-----------------------------------------------------------------------------
(* The methods of Tgf4000EthernetInterface.  Each gives the set of outcomes   *)
(* [w, exc, ret, ...] of a call in world w: the world afterwards, the        *)
(* exception that reaches the caller ("none" on a normal return) and the     *)
(* value returned.                                                          *)

\* Tgf4000EthernetInterface.write
Write(w, command) ==
    { [w |-> s.w, exc |-> Translate(s.exc, SendHandlers(w)), ret |-> "None"]
      : s \in SendAll(w, Terminate(command)) }

\* Tgf4000EthernetInterface.trans.  req is the number of the request this call
\* sent, 0 when it sent nothing.
Trans(w, command) ==
    UNION {
      IF s.exc # "none"
      THEN {[w |-> s.w, exc |-> Translate(s.exc, SendHandlers(w)), ret |-> <<>>,
             req |-> 0, read |-> NoRead(s.w, "none")]}
      ELSE {[w |-> r.w, exc |-> Translate(r.exc, SendHandlers(w)),
             ret |-> RStrip(r.ret), req |-> s.w.nreq, read |-> r] : r \in Read(s.w)}
      : s \in SendAll(w, Terminate(command)) }

\* self._sock.close(); self._is_connection_open = False inside the try of
\* disconnect.  self._sock.close() can fail; the descriptor is released all
\* the same.
CloseSocket(w) ==
    LET closed(how) == [w EXCEPT !.socks[w.sock] = "closed",
                                 !.rx = <<>>, !.inflight = <<>>, !.peer = "up",
                                 !.trace = Append(w.trace, <<"close", w.sock, how>>)]
    IN {[w |-> [closed("ok") EXCEPT !.open = FALSE], exc |-> "none", ret |-> "None"],
        [w |-> closed("OSError"),
         exc |-> Translate("OSError", << <<"Exception", "DeviceConnectionError">> >>),
         ret |-> "None"]}

\* Disconnect without the test of the connection being open: closing None
\* raises AttributeError, which the except clause turns into
\* DeviceConnectionError.
DisconnectUnguarded(w) ==
    IF w.sock = 0
    THEN {[w |-> w,
           exc |-> Translate("AttributeError", << <<"Exception", "DeviceConnectionError">> >>),
           ret |-> "None"]}
    ELSE CloseSocket(w)

\* Tgf4000EthernetInterface.disconnect
Disconnect(w) ==
    IF ~w.open THEN {[w |-> w, exc |-> "none", ret |-> "None"]}
    ELSE CloseSocket(w)

\* str.split(",") of the identification reply
CommaPos(t) == {i \in 1..Len(t) : t[i] = ","}
NFields(t) == Cardinality(CommaPos(t)) + 1
\* position of the k-th comma; 0 before the first field, Len(t)+1 after the last
Comma(t, k) ==
    IF k = 0 THEN 0
    ELSE IF k > Cardinality(CommaPos(t)) THEN Len(t) + 1
    ELSE CHOOSE i \in CommaPos(t) : Cardinality({j \in CommaPos(t) : j < i}) = k - 1
Field(t, k) == SubSeq(t, Comma(t, k - 1) + 1, Comma(t, k) - 1)
\* marker in field
Contains(field, marker) == \E i \in 1..Len(field) : field[i] = marker

\* The identification test of is_connected on the reply text: the unpacking
\* into manufacturer and model raises ValueError when there are fewer than
\* two fields.
Identify(t) ==
    IF NFields(t) < 2 THEN "ValueError"
    ELSE IF ~Contains(Field(t, 1), "M") \/ ~Contains(Field(t, 2), "T") THEN "wrong"
    ELSE "ok"

\* DisconnectReturnFalse with the call of disconnect left out.
ReturnFalseOnly(w) == {[w |-> w, exc |-> "none", ret |-> "False"]}

\* is_connected after the identification query failed or gave the wrong answer:
\* self.disconnect(); return False
DisconnectReturnFalse(w) ==
    { IF d.exc # "none" THEN [w |-> d.w, exc |-> d.exc, ret |-> "None"]
      ELSE [w |-> d.w, exc |-> "none", ret |-> "False"] : d \in Disconnect(w) }

\* Tgf4000EthernetInterface.is_connected.  self.query sends the command with
\* trans; the query is made twice, first for the print.
IsConnected(w) ==
    IF ~w.open THEN {[w |-> w, exc |-> "none", ret |-> "False"]}
    ELSE UNION {
      IF "DeviceError" \in Classes(q1.exc) THEN DisconnectReturnFalse(q1.w)
      ELSE IF q1.exc # "none" THEN {[w |-> q1.w, exc |-> q1.exc, ret |-> "None"]}
      ELSE UNION {
        IF "DeviceError" \in Classes(q2.exc) THEN DisconnectReturnFalse(q2.w)
        ELSE IF q2.exc # "none" THEN {[w |-> q2.w, exc |-> q2.exc, ret |-> "None"]}
        ELSE CASE Identify(Text(q2.ret)) = "ValueError" ->
                    {[w |-> q2.w, exc |-> "ValueError", ret |-> "None"]}
               [] Identify(Text(q2.ret)) = "wrong" -> DisconnectReturnFalse(q2.w)
               [] OTHER -> {[w |-> q2.w, exc |-> "none", ret |-> "True"]}
        : q2 \in Trans(q1.w, IDENTIFICATION_QUERY) }
      : q1 \in Trans(w, IDENTIFICATION_QUERY) }

\* connect() from socket.connect on: the connection attempt and the
\* identification check.  tcp records what socket.connect did.
ConnectSocket(w, result) ==
    LET tried == [w EXCEPT !.trace = Append(w.trace, <<"connect", w.sock, result>>)]
    IN IF result # "ok"
       THEN {[w |-> tried, exc |-> Translate(result, ConnectHandlers), ret |-> "None",
              tcp |-> result, idn |-> "None"]}
       ELSE LET up == [tried EXCEPT !.socks[w.sock] = "connected", !.open = TRUE,
                                    !.rx = <<>>, !.inflight = <<>>, !.peer = "up"]
            IN { IF i.exc # "none"
                 THEN [w |-> i.w, exc |-> i.exc, ret |-> "None", tcp |-> result, idn |-> "None"]
                 ELSE IF i.ret = "False"
                 THEN [w |-> i.w, exc |-> "DeviceConnectionError", ret |-> "None",
                       tcp |-> result, idn |-> i.ret]
                 ELSE [w |-> i.w, exc |-> "none", ret |-> "None", tcp |-> result, idn |-> i.ret]
                 : i \in IsConnected(up) }

\* connect() once its sanity checks are passed: a new socket object, the
\* connection attempt and the identification check.
CreateAndConnect(w) ==
    {[w |-> w, exc |-> Translate("OSError", << <<"OSError", "DeviceConnectionError">> >>),
      ret |-> "None", tcp |-> "None", idn |-> "None"]}
    \cup
    LET id == Len(w.socks) + 1
        created == [w EXCEPT !.socks = Append(w.socks, "created"), !.sock = id,
                             !.trace = Append(w.trace, <<"socket", id, "ok">>)]
    IN UNION {ConnectSocket(created, result) : result \in ConnectResults}

\* Connect without the test of the connection being open already.
ConnectNoOpenCheck(w, host, prt) ==
    IF host \in {"None", ""}
    THEN {[w |-> w, exc |-> "ValueError", ret |-> "None", tcp |-> "None", idn |-> "None"]}
    ELSE IF prt \in {"None", "0"}
    THEN {[w |-> w, exc |-> "ValueError", ret |-> "None", tcp |-> "None", idn |-> "None"]}
    ELSE CreateAndConnect(w)

\* Connect with the hostname tested against None only, the port against 0 only.
ConnectWeakChecks(w, host, prt) ==
    IF w.open THEN {[w |-> w, exc |-> "none", ret |-> "None", tcp |-> "None", idn |-> "None"]}
    ELSE IF host = "None"
    THEN {[w |-> w, exc |-> "ValueError", ret |-> "None", tcp |-> "None", idn |-> "None"]}
    ELSE IF prt = "0"
    THEN {[w |-> w, exc |-> "ValueError", ret |-> "None", tcp |-> "None", idn |-> "None"]}
    ELSE CreateAndConnect(w)

\* Tgf4000EthernetInterface.connect
Connect(w, host, prt) ==
    IF w.open THEN {[w |-> w, exc |-> "none", ret |-> "None", tcp |-> "None", idn |-> "None"]}
    ELSE IF host \in {"None", ""}
    THEN {[w |-> w, exc |-> "ValueError", ret |-> "None", tcp |-> "None", idn |-> "None"]}
    ELSE IF prt \in {"None", "0"}
    THEN {[w |-> w, exc |-> "ValueError", ret |-> "None", tcp |-> "None", idn |-> "None"]}
    ELSE CreateAndConnect(w)

\* Tgf4000EthernetInterface.reconnect
Reconnect(w, host, prt) ==
    IF w.open
    THEN UNION { IF d.exc # "none"
                 THEN {[w |-> d.w, exc |-> d.exc, ret |-> "None", tcp |-> "None", idn |-> "None"]}
                 ELSE Connect(d.w, host, prt) : d \in Disconnect(w) }
    ELSE Connect(w, host, prt)

-----------------------------------------------------------------------------
(* The state machine *)

\* Values of hostname and port after __init__ (the arguments or the settings).
\* They are written as Python writes them: "None" is None, "0" is the number 0.
Hostnames == {"None", "", "awg"}
Ports == {"None", "0", "5025"}

\* The commands the model hands to write and trans.
Commands ==
    { <<"FREQ", "?">>, <<"FREQ", "?", LF>>, <<"FREQ", " ", "x">>, <<>> }

ReadInfo(r) == [ret |-> r.ret, all |-> r.all, nrecv |-> r.nrecv, timedout |-> r.timedout,
                n_total |-> r.n_total]

\* Whether two worlds have the same connection state: the flag, the socket
\* handle, the sockets and what is on the connection.
SameConnection(v, w) ==
    /\ v.open = w.open
    /\ v.sock = w.sock
    /\ v.socks = w.socks
    /\ v.rx = w.rx
    /\ v.inflight = w.inflight
    /\ v.peer = w.peer
    /\ v.nreq = w.nreq

\* The record of a completed call with outcome o.
CallRecord(op, command, o) ==
    [op |-> op, cmd |-> command, exc |-> o.exc, ret |-> o.ret,
     sent |-> o.w.sent, trace |-> o.w.trace,
     was_open |-> is_connection_open, had_sock |-> sock,
     unchanged |-> SameConnection(World, o.w),
     req |-> 0, read |-> ReadInfo(NoRead(o.w, "none")), tcp |-> "None", idn |-> "None",
     method |-> "None", cmd_type |-> "None"]

Commit(o, rec) ==
    /\ is_connection_open' = o.w.open
    /\ sock' = o.w.sock
    /\ socks' = o.w.socks
    /\ rxbuf' = o.w.rx
    /\ inflight' = o.w.inflight
    /\ peer' = o.w.peer
    /\ nreq' = o.w.nreq
    /\ call' = rec
    /\ UNCHANGED <<hostname, port, services, simulators, arbdata, parsing>>

Init ==
    /\ hostname \in Hostnames
    /\ port \in Ports
    /\ is_connection_open = FALSE
    /\ sock = 0
    /\ socks = <<>>
    /\ rxbuf = <<>>
    /\ inflight = <<>>
    /\ peer = "up"
    /\ nreq = 0
    /\ call = [op |-> "__init__"]
    /\ NoServices /\ NoSimulators /\ NoArbData /\ NoParsing

DoConnect ==
    /\ Len(socks) < MaxSocks
    /\ nreq + 2 <= MaxCmds
    /\ \E o \in Connect(World, hostname, port) :
         Commit(o, [CallRecord("connect", <<>>, o) EXCEPT !.tcp = o.tcp, !.idn = o.idn])

DoDisconnect ==
    \E o \in Disconnect(World) : Commit(o, CallRecord("disconnect", <<>>, o))

DoReconnect ==
    /\ Len(socks) < MaxSocks
    /\ nreq + 2 <= MaxCmds
    /\ \E o \in Reconnect(World, hostname, port) :
         Commit(o, [CallRecord("reconnect", <<>>, o) EXCEPT !.tcp = o.tcp, !.idn = o.idn])

DoIsConnected ==
    /\ nreq + 2 <= MaxCmds
    /\ \E o \in IsConnected(World) : Commit(o, CallRecord("is_connected", <<>>, o))

DoWrite ==
    /\ nreq + 1 <= MaxCmds
    /\ \E command \in Commands : \E o \in Write(World, command) :
         Commit(o, CallRecord("write", command, o))

DoTrans ==
    /\ nreq + 1 <= MaxCmds
    /\ \E command \in Commands : \E o \in Trans(World, command) :
         Commit(o, [CallRecord("trans", command, o) EXCEPT !.req = o.req,
                                                            !.read = ReadInfo(o.read)])

DoRead ==
    \E o \in Read(World) :
        Commit(o, [CallRecord("read", <<>>, o) EXCEPT !.read = ReadInfo(o)])

\* A reply of the device arrives at the socket.
DeviceReply ==
    /\ inflight # <<>>
    /\ rxbuf' = Deliver(World).rx
    /\ inflight' = Tail(inflight)
    /\ UNCHANGED <<hostname, port, is_connection_open, sock, socks, peer, nreq, call>>
    /\ UNCHANGED <<services, simulators, arbdata, parsing>>

\* The device closes the connection.
PeerClose ==
    /\ SockState(World) = "connected"
    /\ peer = "up"
    /\ peer' = "closed"
    /\ UNCHANGED <<hostname, port, is_connection_open, sock, socks, rxbuf, inflight, nreq, call>>
    /\ UNCHANGED <<services, simulators, arbdata, parsing>>

Next ==
    \/ DoConnect
    \/ DoDisconnect
    \/ DoReconnect
    \/ DoIsConnected
    \/ DoWrite
    \/ DoTrans
    \/ DoRead
    \/ DeviceReply
    \/ PeerClose

Spec == Init /\ [][Next]_vars

-----------------------------------------------------------------------------
(* The command table of Tgf4000Interface *)

\* Every @dynamic_command declaration of Tgf4000Interface, in source order:
\* the line of the decorator, the method it decorates, cmd_type and
\* cmd_string.  A cmd_string is written as its symbols: words, blanks and
\* question marks; a ${...} parameter is one word.
CommandTable ==
    << [line |-> 243, method |-> "set_channel", cmd_type |-> "WRITE", cmd_string |-> <<"CHN", " ", "${channel}">>],
       [line |-> 253, method |-> "get_channel", cmd_type |-> "TRANSACTION", cmd_string |-> <<"CHN", "?">>],
       [line |-> 267, method |-> "set_waveform_type", cmd_type |-> "WRITE", cmd_string |-> <<"WAVE", " ", "${waveform_type}">>],
       [line |-> 297, method |-> "get_waveform_type", cmd_type |-> "TRANSACTION", cmd_string |-> <<"WAVE", "?">>],
       [line |-> 309, method |-> "set_frequency", cmd_type |-> "WRITE", cmd_string |-> <<"FREQ", " ", "${frequency}">>],
       [line |-> 319, method |-> "get_frequency", cmd_type |-> "TRANSACTION", cmd_string |-> <<"FREQ", "?">>],
       [line |-> 331, method |-> "set_period", cmd_type |-> "WRITE", cmd_string |-> <<"PER", " ", "${period}">>],
       [line |-> 341, method |-> "get_period", cmd_type |-> "TRANSACTION", cmd_string |-> <<"PER", "?">>],
       [line |-> 353, method |-> "set_amplitude_range", cmd_type |-> "WRITE", cmd_string |-> <<"AMPLRNG", " ", "${amplitude_range}">>],
       [line |-> 368, method |-> "get_amplitude_range", cmd_type |-> "TRANSACTION", cmd_string |-> <<"AMPLRNG", "?">>],
       [line |-> 383, method |-> "set_amplitude", cmd_type |-> "WRITE", cmd_string |-> <<"AMPL", " ", "${amplitude}">>],
       [line |-> 393, method |-> "get_amplitude", cmd_type |-> "TRANSACTION", cmd_string |-> <<"AMPL", "?">>],
       [line |-> 405, method |-> "set_amplitude_high_level", cmd_type |-> "WRITE", cmd_string |-> <<"HILVL", " ", "${high_level}">>],
       [line |-> 415, method |-> "get_amplitude_high_level", cmd_type |-> "TRANSACTION", cmd_string |-> <<"HILVL", "?">>],
       [line |-> 427, method |-> "set_amplitude_low_level", cmd_type |-> "WRITE", cmd_string |-> <<"LOLVL", " ", "${low_level}">>],
       [line |-> 437, method |-> "get_amplitude_low_level", cmd_type |-> "TRANSACTION", cmd_string |-> <<"LOLVL", "?">>],
       [line |-> 449, method |-> "set_dc_offset", cmd_type |-> "WRITE", cmd_string |-> <<"DCOFFS", " ", "${offset}">>],
       [line |-> 459, method |-> "get_dc_offset", cmd_type |-> "TRANSACTION", cmd_string |-> <<"DCOFFS", "?">>],
       [line |-> 471, method |-> "set_output_status", cmd_type |-> "WRITE", cmd_string |-> <<"OUTPUT", " ", "${output_status}">>],
       [line |-> 489, method |-> "get_output_status", cmd_type |-> "TRANSACTION", cmd_string |-> <<"OUTPUT", "?">>],
       [line |-> 501, method |-> "set_output_load", cmd_type |-> "WRITE", cmd_string |-> <<"ZLOAD", " ", "${load}">>],
       [line |-> 512, method |-> "get_output_load", cmd_type |-> "TRANSACTION", cmd_string |-> <<"ZLOAD", "?">>],
       [line |-> 526, method |-> "set_square_waveform_symmetry", cmd_type |-> "WRITE", cmd_string |-> <<"SQRSYMM", " ", "${duty_cycle}">>],
       [line |-> 536, method |-> "get_square_waveform_symmetry", cmd_type |-> "WRITE", cmd_string |-> <<"SQRSYMM", "?">>],
       [line |-> 548, method |-> "set_ramp_waveform_symmetry", cmd_type |-> "WRITE", cmd_string |-> <<"RMPSYMM", " ", "${duty_cycle}">>],
       [line |-> 558, method |-> "get_ramp_waveform_symmetry", cmd_type |-> "WRITE", cmd_string |-> <<"RMPSYMM", "?">>],
       [line |-> 570, method |-> "set_sync_output", cmd_type |-> "WRITE", cmd_string |-> <<"SYNCOUT", " ", "${sync_output}">>],
       [line |-> 580, method |-> "get_sync_output", cmd_type |-> "WRITE", cmd_string |-> <<"SYNCOUT", "?">>],
       [line |-> 592, method |-> "set_sync_type", cmd_type |-> "WRITE", cmd_string |-> <<"SYNCTYPE", " ", "${sync_output}">>],
       [line |-> 602, method |-> "get_sync_type", cmd_type |-> "WRITE", cmd_string |-> <<"SYNCTYPE", "?">>],
       [line |-> 614, method |-> "set_channel2_config", cmd_type |-> "WRITE", cmd_string |-> <<"CHN2CONFIG", " ", "${config}">>],
       [line |-> 624, method |-> "get_channel2_config", cmd_type |-> "WRITE", cmd_string |-> <<"CHN2CONFIG", "?">>],
       [line |-> 636, method |-> "set_phase", cmd_type |-> "WRITE", cmd_string |-> <<"PHASE", " ", "${phase}">>],
       [line |-> 646, method |-> "get_phase", cmd_type |-> "TRANSACTION", cmd_string |-> <<"PHASE", "?">>],
       [line |-> 658, method |-> "align", cmd_type |-> "WRITE", cmd_string |-> <<"ALIGN">>],
       [line |-> 666, method |-> "set_pulse_frequency", cmd_type |-> "WRITE", cmd_string |-> <<"PULSFREQ", " ", "${frequency}">>],
       [line |-> 676, method |-> "get_pulse_frequency", cmd_type |-> "TRANSACTION", cmd_string |-> <<"PULSFREQ", "?">>],
       [line |-> 691, method |-> "set_pulse_period", cmd_type |-> "WRITE", cmd_string |-> <<"PULSPER", " ", "${period}">>],
       [line |-> 701, method |-> "get_pulse_period", cmd_type |-> "TRANSACTION", cmd_string |-> <<"PULSPER", "?">>],
       [line |-> 716, method |-> "set_pulse_period", cmd_type |-> "WRITE", cmd_string |-> <<"PULSWID", " ", "${width}">>],
       [line |-> 726, method |-> "get_pulse_period", cmd_type |-> "TRANSACTION", cmd_string |-> <<"PULSWID", "?">>],
       [line |-> 741, method |-> "set_pulse_symmetry", cmd_type |-> "WRITE", cmd_string |-> <<"PULSSYMM", " ", "${symmetry}">>],
       [line |-> 751, method |-> "get_pulse_symmetry", cmd_type |-> "TRANSACTION", cmd_string |-> <<"PULSSYMM", "?">>],
       [line |-> 766, method |-> "set_pulse_edges", cmd_type |-> "WRITE", cmd_string |-> <<"PULSEDGE", " ", "${edges}">>],
       [line |-> 776, method |-> "get_pulse_edges", cmd_type |-> "TRANSACTION", cmd_string |-> <<"PULSEDGE", "?">>],
       [line |-> 791, method |-> "set_pulse_rise", cmd_type |-> "WRITE", cmd_string |-> <<"PULSRISE", " ", "${rise}">>],
       [line |-> 801, method |-> "get_pulse_rise", cmd_type |-> "TRANSACTION", cmd_string |-> <<"PULSRISE", "?">>],
       [line |-> 816, method |-> "set_pulse_fall", cmd_type |-> "WRITE", cmd_string |-> <<"PULSFALL", " ", "${fall}">>],
       [line |-> 826, method |-> "get_pulse_fall", cmd_type |-> "TRANSACTION", cmd_string |-> <<"PULSFALL", "?">>],
       [line |-> 841, method |-> "set_pulse_delay", cmd_type |-> "WRITE", cmd_string |-> <<"PULSDLY", " ", "${delay}">>],
       [line |-> 851, method |-> "get_pulse_delay", cmd_type |-> "TRANSACTION", cmd_string |-> <<"PULSDLY", "?">>],
       [line |-> 868, method |-> "set_prbs_bitrate", cmd_type |-> "WRITE", cmd_string |-> <<"PRBSBITRATE", " ", "${bitrate}">>],
       [line |-> 878, method |-> "get_prbs_bitrate", cmd_type |-> "TRANSACTION", cmd_string |-> <<"PRBSBITRATE", "?">>],
       [line |-> 895, method |-> "set_arb_dc_offset", cmd_type |-> "WRITE", cmd_string |-> <<"ARBDCOFFS", " ", "${dc_offset}">>],
       [line |-> 905, method |-> "get_arb_dc_offset", cmd_type |-> "TRANSACTION", cmd_string |-> <<"ARBDCOFFS", "?">>],
       [line |-> 920, method |-> "set_arb_filter", cmd_type |-> "WRITE", cmd_string |-> <<"ARBFILTER", " ", "${filter_shape}">>],
       [line |-> 935, method |-> "get_arb_filter", cmd_type |-> "TRANSACTION", cmd_string |-> <<"ARBFILTER", "?">>],
       [line |-> 950, method |-> "set_arb_waveform", cmd_type |-> "WRITE", cmd_string |-> <<"ARBLOAD", " ", "${output_type}">>],
       [line |-> 979, method |-> "get_arb_waveform", cmd_type |-> "TRANSACTION", cmd_string |-> <<"ARBLOAD", "?">>],
       [line |-> 1008, method |-> "set_arb_size", cmd_type |-> "WRITE", cmd_string |-> <<"ARBRESIZE", " ", "${output_type}", " ", "${size}">>],
       [line |-> 1021, method |-> "get_arb_size", cmd_type |-> "TRANSACTION", cmd_string |-> <<"ARBRESIZE", "?">>],
       [line |-> 1039, method |-> "define_arb_waveform", cmd_type |-> "WRITE", cmd_string |-> <<"ARBDEF", " ", "${arb},", " ", "${name},", " ", "${interpolation}">>],
       [line |-> 1053, method |-> "load_arb1_data", cmd_type |-> "WRITE", cmd_string |-> <<"ARB1", " ", "${binary}">>],
       [line |-> 1073, method |-> "load_arb2_data", cmd_type |-> "WRITE", cmd_string |-> <<"ARB2", " ", "${binary}">>],
       [line |-> 1093, method |-> "load_arb3_data", cmd_type |-> "WRITE", cmd_string |-> <<"ARB3", " ", "${binary}">>],
       [line |-> 1113, method |-> "load_arb4_data", cmd_type |-> "WRITE", cmd_string |-> <<"ARB4", " ", "${binary}">>],
       [line |-> 1133, method |-> "load_arb1_ascii", cmd_type |-> "WRITE", cmd_string |-> <<"ARB1", " ", "${binary}">>],
       [line |-> 1137, method |-> "load_arb2_ascii", cmd_type |-> "WRITE", cmd_string |-> <<"ARB2", " ", "${binary}">>],
       [line |-> 1141, method |-> "load_arb3_ascii", cmd_type |-> "WRITE", cmd_string |-> <<"ARB3", " ", "${binary}">>],
       [line |-> 1145, method |-> "load_arb4_ascii", cmd_type |-> "WRITE", cmd_string |-> <<"ARB4", " ", "${binary}">>],
       [line |-> 1149, method |-> "get_arb1_def", cmd_type |-> "TRANSACTION", cmd_string |-> <<"ARB1DEF", "?">>],
       [line |-> 1166, method |-> "get_arb2_def", cmd_type |-> "TRANSACTION", cmd_string |-> <<"ARB2DEF", "?">>],
       [line |-> 1183, method |-> "get_arb3_def", cmd_type |-> "TRANSACTION", cmd_string |-> <<"ARB3DEF", "?">>],
       [line |-> 1200, method |-> "get_arb4_def", cmd_type |-> "TRANSACTION", cmd_string |-> <<"ARB4DEF", "?">>],
       [line |-> 1217, method |-> "get_arb1", cmd_type |-> "TRANSACTION", cmd_string |-> <<"ARB1", "?">>],
       [line |-> 1240, method |-> "get_arb2", cmd_type |-> "TRANSACTION", cmd_string |-> <<"ARB2", "?">>],
       [line |-> 1263, method |-> "get_arb3", cmd_type |-> "TRANSACTION", cmd_string |-> <<"ARB3", "?">>],
       [line |-> 1286, method |-> "get_arb4", cmd_type |-> "TRANSACTION", cmd_string |-> <<"ARB4", "?">>],
       [line |-> 1311, method |-> "set_modulation", cmd_type |-> "WRITE", cmd_string |-> <<"MOD", " ", "${modulation}">>],
       [line |-> 1338, method |-> "set_modulation", cmd_type |-> "WRITE", cmd_string |-> <<"MOD", "?">>],
       [line |-> 1366, method |-> "set_am_waveform_shape", cmd_type |-> "WRITE", cmd_string |-> <<"MODAMSHAPE", " ", "${shape}">>],
       [line |-> 1400, method |-> "get_am_waveform_shape", cmd_type |-> "TRANSACTION", cmd_string |-> <<"MODAMSHAPE", "?">>],
       [line |-> 1434, method |-> "set_fm_waveform_shape", cmd_type |-> "WRITE", cmd_string |-> <<"MODFMSHAPE", " ", "${shape}">>],
       [line |-> 1468, method |-> "get_fm_waveform_shape", cmd_type |-> "TRANSACTION", cmd_string |-> <<"MODFMSHAPE", "?">>],
       [line |-> 1502, method |-> "set_pm_waveform_shape", cmd_type |-> "WRITE", cmd_string |-> <<"MODPMSHAPE", " ", "${shape}">>],
       [line |-> 1536, method |-> "get_pm_waveform_shape", cmd_type |-> "TRANSACTION", cmd_string |-> <<"MODPMSHAPE", "?">>],
       [line |-> 1570, method |-> "set_pwm_waveform_shape", cmd_type |-> "WRITE", cmd_string |-> <<"MODPWMSHAPE", " ", "${shape}">>],
       [line |-> 1604, method |-> "get_pwm_waveform_shape", cmd_type |-> "TRANSACTION", cmd_string |-> <<"MODPWMSHAPE", "?">>],
       [line |-> 1638, method |-> "set_sum_waveform_shape", cmd_type |-> "WRITE", cmd_string |-> <<"MODSUMSHAPE", " ", "${shape}">>],
       [line |-> 1672, method |-> "get_sum_waveform_shape", cmd_type |-> "TRANSACTION", cmd_string |-> <<"MODSUMSHAPE", "?">>],
       [line |-> 1706, method |-> "set_am_source", cmd_type |-> "WRITE", cmd_string |-> <<"MODAMSRC", " ", "${source}">>],
       [line |-> 1725, method |-> "get_am_source", cmd_type |-> "TRANSACTION", cmd_string |-> <<"MODAMSRC", "?">>],
       [line |-> 1745, method |-> "set_fm_source", cmd_type |-> "WRITE", cmd_string |-> <<"MODFMSRC", " ", "${source}">>],
       [line |-> 1764, method |-> "get_fm_source", cmd_type |-> "TRANSACTION", cmd_string |-> <<"MODFMSRC", "?">>],
       [line |-> 1784, method |-> "set_pm_source", cmd_type |-> "WRITE", cmd_string |-> <<"MODPMSRC", " ", "${source}">>],
       [line |-> 1803, method |-> "get_pm_source", cmd_type |-> "TRANSACTION", cmd_string |-> <<"MODPMSRC", "?">>],
       [line |-> 1823, method |-> "set_pwm_source", cmd_type |-> "WRITE", cmd_string |-> <<"MODPWMSRC", " ", "${source}">>],
       [line |-> 1842, method |-> "get_pwm_source", cmd_type |-> "TRANSACTION", cmd_string |-> <<"MODPWMSRC", "?">>],
       [line |-> 1862, method |-> "set_sum_source", cmd_type |-> "WRITE", cmd_string |-> <<"MODPWMSRC", " ", "${source}">>],
       [line |-> 1881, method |-> "get_sum_source", cmd_type |-> "TRANSACTION", cmd_string |-> <<"MODSUMSRC", "?">>],
       [line |-> 1901, method |-> "set_am_frequency", cmd_type |-> "WRITE", cmd_string |-> <<"MODAMFREQ", " ", "${frequency}">>],
       [line |-> 1915, method |-> "get_am_frequency", cmd_type |-> "TRANSACTION", cmd_string |-> <<"MODAMFREQ", "?">>],
       [line |-> 1930, method |-> "set_am_frequency", cmd_type |-> "WRITE", cmd_string |-> <<"MODAMFREQ", " ", "${frequency}">>],
       [line |-> 1944, method |-> "get_am_frequency", cmd_type |-> "TRANSACTION", cmd_string |-> <<"MODAMFREQ", "?">>],
       [line |-> 1959, method |-> "set_am_frequency", cmd_type |-> "WRITE", cmd_string |-> <<"MODFMFREQ", " ", "${frequency}">>],
       [line |-> 1973, method |-> "get_am_frequency", cmd_type |-> "TRANSACTION", cmd_string |-> <<"MODFMFREQ", "?">>],
       [line |-> 1988, method |-> "set_pm_frequency", cmd_type |-> "WRITE", cmd_string |-> <<"MODPMFREQ", " ", "${frequency}">>],
       [line |-> 2002, method |-> "get_pm_frequency", cmd_type |-> "TRANSACTION", cmd_string |-> <<"MODPMFREQ", "?">>],
       [line |-> 2017, method |-> "set_pwm_frequency", cmd_type |-> "WRITE", cmd_string |-> <<"MODPWMFREQ", " ", "${frequency}">>],
       [line |-> 2031, method |-> "get_pwm_frequency", cmd_type |-> "TRANSACTION", cmd_string |-> <<"MODPWMFREQ", "?">>],
       [line |-> 2046, method |-> "set_sum_frequency", cmd_type |-> "WRITE", cmd_string |-> <<"MODSUMFREQ", " ", "${frequency}">>],
       [line |-> 2060, method |-> "get_sum_frequency", cmd_type |-> "TRANSACTION", cmd_string |-> <<"MODSUMFREQ", "?">>],
       [line |-> 2075, method |-> "set_am_depth", cmd_type |-> "WRITE", cmd_string |-> <<"MODAMDEPTH", " ", "${depth}">>],
       [line |-> 2089, method |-> "get_am_depth", cmd_type |-> "TRANSACTION", cmd_string |-> <<"MODAMDEPTH", "?">>],
       [line |-> 2104, method |-> "set_fm_deviation", cmd_type |-> "WRITE", cmd_string |-> <<"MODFMDEV", " ", "${deviation}">>],
       [line |-> 2118, method |-> "get_fm_deviation", cmd_type |-> "TRANSACTION", cmd_string |-> <<"MODFMDEV", "?">>],
       [line |-> 2133, method |-> "set_pm_deviation", cmd_type |-> "WRITE", cmd_string |-> <<"MODPMDEV", " ", "${deviation}">>],
       [line |-> 2147, method |-> "get_pm_deviation", cmd_type |-> "TRANSACTION", cmd_string |-> <<"MODPMDEV", "?">>],
       [line |-> 2162, method |-> "set_pwm_deviation", cmd_type |-> "WRITE", cmd_string |-> <<"MODPWMDEV", " ", "${deviation}">>],
       [line |-> 2176, method |-> "get_pwm_deviation", cmd_type |-> "TRANSACTION", cmd_string |-> <<"MODPWMDEV", "?">>],
       [line |-> 2191, method |-> "set_sum_level", cmd_type |-> "WRITE", cmd_string |-> <<"MODSUMLEVEL", " ", "${level}">>],
       [line |-> 2205, method |-> "get_sum_level", cmd_type |-> "TRANSACTION", cmd_string |-> <<"MODSUMLEVEL", "?">>],
       [line |-> 2220, method |-> "set_fsk_source", cmd_type |-> "WRITE", cmd_string |-> <<"MODFSKSRC", " ", "${source}">>],
       [line |-> 2239, method |-> "get_fsk_source", cmd_type |-> "TRANSACTION", cmd_string |-> <<"MODFSKSRC", "?">>],
       [line |-> 2259, method |-> "set_hop_frequency", cmd_type |-> "WRITE", cmd_string |-> <<"MODHOPFREQ", " ", "${frequency}">>],
       [line |-> 2273, method |-> "get_hop_frequency", cmd_type |-> "TRANSACTION", cmd_string |-> <<"MODHOPFREQ", "?">>],
       [line |-> 2288, method |-> "set_fsk_rate", cmd_type |-> "WRITE", cmd_string |-> <<"MODFSKRATE", " ", "${rate}">>],
       [line |-> 2302, method |-> "get_fsk_rate", cmd_type |-> "TRANSACTION", cmd_string |-> <<"MODFSKRATE", "?">>],
       [line |-> 2317, method |-> "set_fsk_slope", cmd_type |-> "WRITE", cmd_string |-> <<"MODPOLFSK", " ", "${slope}">>],
       [line |-> 2336, method |-> "get_fsk_slope", cmd_type |-> "TRANSACTION", cmd_string |-> <<"MODPOLFSK", "?">>],
       [line |-> 2356, method |-> "set_bpsk_source", cmd_type |-> "WRITE", cmd_string |-> <<"MODBPSKSRC", " ", "${source}">>],
       [line |-> 2375, method |-> "get_bpsk_source", cmd_type |-> "TRANSACTION", cmd_string |-> <<"MODBPSKSRC", "?">>],
       [line |-> 2395, method |-> "set_bpsk_phase", cmd_type |-> "WRITE", cmd_string |-> <<"MODBPSKPHASE", " ", "${source}">>],
       [line |-> 2409, method |-> "get_bpsk_phase", cmd_type |-> "TRANSACTION", cmd_string |-> <<"MODBPSKPHASE", "?">>],
       [line |-> 2424, method |-> "set_bpsk_rate", cmd_type |-> "WRITE", cmd_string |-> <<"MODBPSKRATE", " ", "${rate}">>],
       [line |-> 2438, method |-> "get_bpsk_rate", cmd_type |-> "TRANSACTION", cmd_string |-> <<"MODBPSKRATE", "?">>],
       [line |-> 2453, method |-> "set_bpsk_slope", cmd_type |-> "WRITE", cmd_string |-> <<"MODPOLBPSK", " ", "${slope}">>],
       [line |-> 2472, method |-> "get_bpsk_slope", cmd_type |-> "TRANSACTION", cmd_string |-> <<"MODPOLBPSK", "?">>],
       [line |-> 2492, method |-> "set_ask_source", cmd_type |-> "WRITE", cmd_string |-> <<"MODASKSRC", " ", "${source}">>],
       [line |-> 2511, method |-> "get_ask_source", cmd_type |-> "TRANSACTION", cmd_string |-> <<"MODASKSRC", "?">>],
       [line |-> 2531, method |-> "set_hop_frequency", cmd_type |-> "WRITE", cmd_string |-> <<"MODHOPAMPL", " ", "${amplitude}">>],
       [line |-> 2545, method |-> "get_hop_amplitude", cmd_type |-> "TRANSACTION", cmd_string |-> <<"MODHOPAMPL", "?">>],
       [line |-> 2560, method |-> "set_ask_rate", cmd_type |-> "WRITE", cmd_string |-> <<"MODASKRATE", " ", "${rate}">>],
       [line |-> 2574, method |-> "get_ask_rate", cmd_type |-> "TRANSACTION", cmd_string |-> <<"MODASKRATE", "?">>],
       [line |-> 2589, method |-> "set_ask_slope", cmd_type |-> "WRITE", cmd_string |-> <<"MODPOLASK", " ", "${slope}">>],
       [line |-> 2608, method |-> "get_ask_slope", cmd_type |-> "TRANSACTION", cmd_string |-> <<"MODPOLASK", "?">>],
       [line |-> 2630, method |-> "set_sweep_type", cmd_type |-> "WRITE", cmd_string |-> <<"SWPTYPE", " ", "${sweep_type}">>],
       [line |-> 2651, method |-> "get_sweep_type", cmd_type |-> "TRANSACTION", cmd_string |-> <<"SWPTYPE", "?">>],
       [line |-> 2673, method |-> "set_sweep_mode", cmd_type |-> "WRITE", cmd_string |-> <<"SWPMODE", " ", "${sweep_mode}">>],
       [line |-> 2692, method |-> "get_sweep_mode", cmd_type |-> "TRANSACTION", cmd_string |-> <<"SWPMODE", "?">>],
       [line |-> 2712, method |-> "set_sweep_trigger_source", cmd_type |-> "WRITE", cmd_string |-> <<"SWPTRGSRC", " ", "${trigger_source}">>],
       [line |-> 2732, method |-> "get_sweep_trigger_source", cmd_type |-> "TRANSACTION", cmd_string |-> <<"SWPTRGSRC", "?">>],
       [line |-> 2753, method |-> "set_sweep_trigger_source", cmd_type |-> "WRITE", cmd_string |-> <<"SWPTRGPER", " ", "${period}">>],
       [line |-> 2767, method |-> "get_sweep_trigger_source", cmd_type |-> "TRANSACTION", cmd_string |-> <<"SWPTRGPER", "?">>],
       [line |-> 2782, method |-> "set_sweep_trigger_slope", cmd_type |-> "WRITE", cmd_string |-> <<"SWPTRGPOL", " ", "${slope}">>],
       [line |-> 2801, method |-> "get_sweep_trigger_slope", cmd_type |-> "TRANSACTION", cmd_string |-> <<"SWPTRGPOL", "?">>],
       [line |-> 2821, method |-> "set_sweep_start_frequency", cmd_type |-> "WRITE", cmd_string |-> <<"SWPBEGFREQ", " ", "${frequency}">>],
       [line |-> 2835, method |-> "get_sweep_start_frequency", cmd_type |-> "TRANSACTION", cmd_string |-> <<"SWPBEGFREQ", "?">>],
       [line |-> 2850, method |-> "set_sweep_stop_frequency", cmd_type |-> "WRITE", cmd_string |-> <<"SWPENDFREQ", " ", "${frequency}">>],
       [line |-> 2864, method |-> "get_sweep_stop_frequency", cmd_type |-> "TRANSACTION", cmd_string |-> <<"SWPENDFREQ", "?">>],
       [line |-> 2879, method |-> "set_sweep_center_frequency", cmd_type |-> "WRITE", cmd_string |-> <<"SWPCNTFREQ", " ", "${frequency}">>],
       [line |-> 2893, method |-> "get_sweep_center_frequency", cmd_type |-> "TRANSACTION", cmd_string |-> <<"SWPCNTFREQ", "?">>],
       [line |-> 2908, method |-> "set_sweep_frequency_span", cmd_type |-> "WRITE", cmd_string |-> <<"SWPSPNFREQ", " ", "${frequency}">>],
       [line |-> 2922, method |-> "get_sweep_frequency_span", cmd_type |-> "TRANSACTION", cmd_string |-> <<"SWPSPNFREQ", "?">>],
       [line |-> 2937, method |-> "set_sweep_time", cmd_type |-> "WRITE", cmd_string |-> <<"SWPTIME", " ", "${time}">>],
       [line |-> 2951, method |-> "get_sweep_time", cmd_type |-> "TRANSACTION", cmd_string |-> <<"SWPTIME", "?">>],
       [line |-> 2966, method |-> "set_sweep", cmd_type |-> "WRITE", cmd_string |-> <<"SWP", " ", "${switch}">>],
       [line |-> 2980, method |-> "get_sweep", cmd_type |-> "TRANSACTION", cmd_string |-> <<"SWP", "?">>],
       [line |-> 2997, method |-> "set_burst_trigger_source", cmd_type |-> "WRITE", cmd_string |-> <<"BSTTRGSRC", " ", "${source}">>],
       [line |-> 3017, method |-> "get_burst_trigger_source", cmd_type |-> "TRANSACTION", cmd_string |-> <<"BSTTRGSRC", "?">>],
       [line |-> 3038, method |-> "set_burst_trigger_period", cmd_type |-> "WRITE", cmd_string |-> <<"BSTPER", " ", "${period}">>],
       [line |-> 3052, method |-> "get_burst_trigger_period", cmd_type |-> "TRANSACTION", cmd_string |-> <<"BSTPER", "?">>],
       [line |-> 3068, method |-> "set_burst_trigger_slope", cmd_type |-> "WRITE", cmd_string |-> <<"BSTTRGPOL", " ", "${slope}">>],
       [line |-> 3087, method |-> "get_burst_trigger_slope", cmd_type |-> "TRANSACTION", cmd_string |-> <<"BSTTRGPOL", "?">>],
       [line |-> 3107, method |-> "set_burst_count", cmd_type |-> "WRITE", cmd_string |-> <<"BSTCOUNT", " ", "${count}">>],
       [line |-> 3120, method |-> "get_burst_count", cmd_type |-> "TRANSACTION", cmd_string |-> <<"BSTCOUNT", "?">>],
       [line |-> 3135, method |-> "set_burst_count", cmd_type |-> "WRITE", cmd_string |-> <<"BSTPHASE", " ", "${phase}">>],
       [line |-> 3148, method |-> "get_burst_count", cmd_type |-> "TRANSACTION", cmd_string |-> <<"BSTPHASE", "?">>],
       [line |-> 3163, method |-> "set_burst", cmd_type |-> "WRITE", cmd_string |-> <<"BST", " ", "${burst}">>],
       [line |-> 3177, method |-> "get_burst", cmd_type |-> "TRANSACTION", cmd_string |-> <<"BST", "?">>],
       [line |-> 3194, method |-> "set_counter_status", cmd_type |-> "WRITE", cmd_string |-> <<"CNTRSWT", " ", "${counter_status}">>],
       [line |-> 3204, method |-> "get_counter_status", cmd_type |-> "TRANSACTION", cmd_string |-> <<"CNTRSWT", "?">>],
       [line |-> 3219, method |-> "set_counter_source", cmd_type |-> "WRITE", cmd_string |-> <<"CNTRCPLNG", " ", "${counter_source}">>],
       [line |-> 3230, method |-> "get_counter_source", cmd_type |-> "TRANSACTION", cmd_string |-> <<"CNTRCPLNG", "?">>],
       [line |-> 3245, method |-> "set_counter_type", cmd_type |-> "WRITE", cmd_string |-> <<"CNTRTYPE", " ", "${counter_type}">>],
       [line |-> 3263, method |-> "get_counter_type", cmd_type |-> "TRANSACTION", cmd_string |-> <<"CNTRTYPE", "?">>],
       [line |-> 3286, method |-> "get_counter_value", cmd_type |-> "TRANSACTION", cmd_string |-> <<"CNTRVAL", "?">>],
       [line |-> 3308, method |-> "set_clock_source", cmd_type |-> "WRITE", cmd_string |-> <<"CLKSRC", " ", "${source}">>],
       [line |-> 3327, method |-> "get_clock_source", cmd_type |-> "TRANSACTION", cmd_string |-> <<"CLKSRC", "?">>],
       [line |-> 3342, method |-> "set_manual_trigger_operation", cmd_type |-> "WRITE", cmd_string |-> <<"CHNTRG", " ", "${trigger}">>],
       [line |-> 3361, method |-> "get_manual_trigger_operation", cmd_type |-> "TRANSACTION", cmd_string |-> <<"CHNTRG", "?">>],
       [line |-> 3378, method |-> "set_amplitude_coupling", cmd_type |-> "WRITE", cmd_string |-> <<"AMPLCPLNG", " ", "${coupling}">>],
       [line |-> 3397, method |-> "get_amplitude_coupling", cmd_type |-> "TRANSACTION", cmd_string |-> <<"AMPLCPLNG", "?">>],
       [line |-> 3417, method |-> "set_output_coupling", cmd_type |-> "WRITE", cmd_string |-> <<"AMPLCPLNG", " ", "${coupling}">>],
       [line |-> 3436, method |-> "get_output_coupling", cmd_type |-> "TRANSACTION", cmd_string |-> <<"AMPLCPLNG", "?">>],
       [line |-> 3456, method |-> "set_frequency_coupling", cmd_type |-> "WRITE", cmd_string |-> <<"FRQCPLSWT", " ", "${coupling}">>],
       [line |-> 3475, method |-> "get_frequency_coupling", cmd_type |-> "TRANSACTION", cmd_string |-> <<"FRQCPLSWT", "?">>],
       [line |-> 3495, method |-> "set_channel_tracking", cmd_type |-> "WRITE", cmd_string |-> <<"TRACKING", " ", "${tracking}">>],
       [line |-> 3514, method |-> "get_channel_tracking", cmd_type |-> "TRANSACTION", cmd_string |-> <<"TRACKING", "?">>],
       [line |-> 3536, method |-> "clear_status", cmd_type |-> "WRITE", cmd_string |-> <<"*CLS">>],
       [line |-> 3545, method |-> "set_std_event_status_enable_register", cmd_type |-> "WRITE", cmd_string |-> <<"*ESE", " ", "${bits}">>],
       [line |-> 3573, method |-> "get_std_event_status_enable_register", cmd_type |-> "TRANSACTION", cmd_string |-> <<"*ESE", "?">>],
       [line |-> 3603, method |-> "get_std_event_status_register", cmd_type |-> "TRANSACTION", cmd_string |-> <<"*ESR", "?">>],
       [line |-> 3619, method |-> "get_ist_local_message", cmd_type |-> "TRANSACTION", cmd_string |-> <<"*IST", "?">>],
       [line |-> 3631, method |-> "set_opc_bit", cmd_type |-> "WRITE", cmd_string |-> <<"*OPC", " ", "${bits}">>],
       [line |-> 3647, method |-> "get_opc_bit", cmd_type |-> "TRANSACTION", cmd_string |-> <<"*OPC", "?">>],
       [line |-> 3662, method |-> "set_pre_register", cmd_type |-> "WRITE", cmd_string |-> <<"*PRE", " ", "${bits}">>],
       [line |-> 3676, method |-> "get_pre_register", cmd_type |-> "TRANSACTION", cmd_string |-> <<"*PRE", "?">>],
       [line |-> 3691, method |-> "set_sre_register", cmd_type |-> "WRITE", cmd_string |-> <<"*SRE", " ", "${bit}">>],
       [line |-> 3705, method |-> "get_sre_register", cmd_type |-> "TRANSACTION", cmd_string |-> <<"*SRE", "?">>],
       [line |-> 3720, method |-> "wait", cmd_type |-> "WRITE", cmd_string |-> <<"*WAI">>],
       [line |-> 3733, method |-> "get_status_byte_register", cmd_type |-> "TRANSACTION", cmd_string |-> <<"*STB", "?">>],
       [line |-> 3758, method |-> "selftest", cmd_type |-> "TRANSACTION", cmd_string |-> <<"*TST", "?">>],
       [line |-> 3772, method |-> "execution_error_register", cmd_type |-> "TRANSACTION", cmd_string |-> <<"EER", "?">>],
       [line |-> 3786, method |-> "query_error_register", cmd_type |-> "TRANSACTION", cmd_string |-> <<"QER", "?">>],
       [line |-> 3798, method |-> "get_setup", cmd_type |-> "TRANSACTION", cmd_string |-> <<"*LRN", "?">>],
       [line |-> 3816, method |-> "install_data", cmd_type |-> "TRANSACTION", cmd_string |-> <<"LRN">>],
       [line |-> 3828, method |-> "reset", cmd_type |-> "WRITE", cmd_string |-> <<"*RST">>],
       [line |-> 3834, method |-> "recall", cmd_type |-> "TRANSACTION", cmd_string |-> <<"*RCL">>],
       [line |-> 3851, method |-> "save", cmd_type |-> "WRITE", cmd_string |-> <<"*SAV">>],
       [line |-> 3863, method |-> "trigger", cmd_type |-> "WRITE", cmd_string |-> <<"*TRG">>],
       [line |-> 3878, method |-> "get_id", cmd_type |-> "TRANSACTION", cmd_string |-> <<"*IDN", "?">>],
       [line |-> 3898, method |-> "set_beep_mode", cmd_type |-> "WRITE", cmd_string |-> <<"BEEPMODE", " ", "${beep_mode}">>],
       [line |-> 3918, method |-> "get_beep_mode", cmd_type |-> "TRANSACTION", cmd_string |-> <<"BEEPMODE", "?">>],
       [line |-> 3939, method |-> "beep", cmd_type |-> "WRITE", cmd_string |-> <<"BEEP">>],
       [line |-> 3951, method |-> "go_local", cmd_type |-> "WRITE", cmd_string |-> <<"LOCAL">>],
       [line |-> 3965, method |-> "get_address", cmd_type |-> "TRANSACTION", cmd_string |-> <<"ADDRESS", "?">>],
       [line |-> 3982, method |-> "set_ip_address", cmd_type |-> "TRANSACTION", cmd_string |-> <<"IPADDR", " ", "${ip_address}">>],
       [line |-> 3998, method |-> "get_ip_address", cmd_type |-> "TRANSACTION", cmd_string |-> <<"IPADDR", "?">>],
       [line |-> 4015, method |-> "set_netmask", cmd_type |-> "TRANSACTION", cmd_string |-> <<"NETMASK", " ", "${netmask}">>],
       [line |-> 4030, method |-> "get_netmask", cmd_type |-> "TRANSACTION", cmd_string |-> <<"NETMASK", "?">>],
       [line |-> 4046, method |-> "get_network_config", cmd_type |-> "TRANSACTION", cmd_string |-> <<"NETCONFIG", " ", "${config}">>],
       [line |-> 4066, method |-> "get_network_config", cmd_type |-> "TRANSACTION", cmd_string |-> <<"NETCONFIG", "?">>] >>

\* A declared command is called on Tgf4000Controller: the command string goes
\* to transport.write for a WRITE command and to transport.trans for a
\* TRANSACTION.
DispatchCommand(w, entry) ==
    IF entry.cmd_type = "TRANSACTION"
    THEN {[w |-> t.w, exc |-> t.exc, ret |-> t.ret, req |-> t.req, read |-> t.read,
           via |-> "trans"] : t \in Trans(w, entry.cmd_string)}
    ELSE {[w |-> t.w, exc |-> t.exc, ret |-> <<>>, req |-> 0, read |-> NoRead(t.w, "none"),
           via |-> "write"] : t \in Write(w, entry.cmd_string)}

\* The names bound in the class body, and the declarations of a name.
MethodNames == {CommandTable[i].method : i \in 1..Len(CommandTable)}
Declarations(name) == {i \in 1..Len(CommandTable) : CommandTable[i].method = name}

\* The declaration a name is bound to: a later def in a class body rebinds
\* the name, so it is the last one.
LastDeclaration(name) == CHOOSE i \in Declarations(name) : \A j \in Declarations(name) : j <= i

\* The namespace of the class: every name with the declaration it is bound to.
Namespace == [name \in MethodNames |-> LastDeclaration(name)]
Resolve(name) == Namespace[name]

\* A method of the controller is called by its name.
Dispatch ==
    /\ nreq + 1 <= MaxCmds
    /\ \E name \in MethodNames :
         LET entry == CommandTable[Resolve(name)]
         IN \E o \in DispatchCommand(World, entry) :
              Commit(o, [CallRecord(o.via, entry.cmd_string, o)
                           EXCEPT !.req = o.req, !.read = ReadInfo(o.read),
                                  !.method = name,
                                  !.cmd_type = entry.cmd_type])

\* The controller right after a successful connect().
InitTable ==
    /\ hostname = "awg"
    /\ port = "5025"
    /\ is_connection_open = TRUE
    /\ sock = 1
    /\ socks = <<"connected">>
    /\ rxbuf = <<>>
    /\ inflight = <<>>
    /\ peer = "up"
    /\ nreq = 2
    /\ call = [op |-> "__init__"]
    /\ NoServices /\ NoSimulators /\ NoArbData /\ NoParsing

NextTable ==
    \/ Dispatch
    \/ DeviceReply

SpecTable == InitTable /\ [][NextTable]_vars

-----------------------------------------------------------------------------
(* Control server, service registry and proxies *)

\* dict.get(key, default)
Get(d, key, default) == IF key \in DOMAIN d THEN d[key] ELSE default

\* The keys a settings block can hold and the values the model gives them;
\* a key that is absent takes the default of the code that reads it.
SettingValues ==
    [COMMANDING_PORT |-> {"0", "6000"}, SERVICE_TYPE |-> {"awg_cs"},
     HOSTNAME |-> {"lab"}, PROTOCOL |-> {"ipc"}]

SettingsBlocks ==
    UNION { {b \in [K -> UNION {SettingValues[k] : k \in K}] :
                \A k \in K : b[k] \in SettingValues[k]} :
            K \in SUBSET DOMAIN SettingValues }

\* connect_address(protocol, hostname, port) of egse.zmq_ser
connect_address(protocol, host, commanding_port) == <<protocol, host, commanding_port>>

\* RegistryClient.discover_service: the registered services of the given type.
discover_service(reg, service_type) == {e \in reg : e.service_type = service_type}

\* ControlServer.register_service / deregister_service
register_service(reg, entry) == reg \cup {entry}
deregister_service(reg, id) == {e \in reg : e.id # id}

\* get_commanding_port(): the port of the bound socket, chosen by the system
\* when the settings give 0.
get_commanding_port(cs_settings) ==
    IF Get(cs_settings, "COMMANDING_PORT", "0") = "0"
    THEN "49152"
    ELSE Get(cs_settings, "COMMANDING_PORT", "0")

\* What the TGF4000 control server puts in the registry.
ServerEntry(cs_settings, service_type) ==
    [id |-> "tgf4000_cs", service_type |-> service_type, host |-> "cs-host",
     port |-> get_commanding_port(cs_settings), protocol |-> "tcp"]

\* What the PMX-A control server puts in the registry (it gives no protocol).
PmxEntry(cs_settings) ==
    [id |-> "pmx_a_cs", service_type |-> Get(cs_settings, "SERVICE_TYPE", "pmx_a_cs"),
     host |-> "psu-host", port |-> "49153"]

\* Tgf4000ControlServer.__init__: the protocol (which connects to the device)
\* or the bind may raise; registering the service is the last statement.
ControlServerInit(cs_settings, reg) ==
    LET service_type == Get(cs_settings, "SERVICE_TYPE", "tgf4000_cs")
    IN { [exc |-> "Exception", registry |-> reg,
          server |-> [state |-> "failed", service_type |-> service_type, log |-> <<>>]],
         [exc |-> "none",
          registry |-> register_service(reg, ServerEntry(cs_settings, service_type)),
          server |-> [state |-> "constructed", service_type |-> service_type,
                      log |-> <<"register">>]] }

AfterServeKeepsService(srv, reg) == [registry |-> reg, server |-> srv]

\* Tgf4000ControlServer.after_serve
AfterServe(srv, reg) ==
    [registry |-> deregister_service(reg, "tgf4000_cs"),
     server |-> [srv EXCEPT !.log = Append(@, "deregister")]]

\* The outcome of constructing a proxy or of an activity check.
ProxyOutcome(exc, endpoint, consulted, service_type, ret) ==
    [exc |-> exc, endpoint |-> endpoint, consulted |-> consulted,
     looked_up |-> service_type, ret |-> ret]

\* Tgf4000Proxy.__init__
Tgf4000Proxy(cs_settings, reg) ==
    LET host == Get(cs_settings, "HOSTNAME", "localhost")
        protocol == Get(cs_settings, "PROTOCOL", "tcp")
        commanding_port == Get(cs_settings, "COMMANDING_PORT", "0")
        service_type == Get(cs_settings, "SERVICE_TYPE", "pmx_a_cs")
    IN IF commanding_port # "0"
       THEN {ProxyOutcome("none", connect_address(protocol, host, commanding_port),
                          FALSE, "None", "None")}
       ELSE LET found == discover_service(reg, service_type)
            IN IF found # {}
               THEN {ProxyOutcome("none",
                                  connect_address(Get(service, "protocol", "tcp"),
                                                  service.host, service.port),
                                  TRUE, service_type, "None") : service \in found}
               ELSE {ProxyOutcome("RuntimeError", <<>>, TRUE, service_type, "None")}

PmxAProxySettingsHost(cs_settings, reg) ==
    LET host == Get(cs_settings, "HOSTNAME", "localhost")
        protocol == Get(cs_settings, "PROTOCOL", "tcp")
        commanding_port == Get(cs_settings, "COMMANDING_PORT", "0")
        service_type == Get(cs_settings, "SERVICE_TYPE", "pmx_a_cs")
    IN IF commanding_port # "0"
       THEN {ProxyOutcome("none", connect_address(protocol, host, commanding_port),
                          FALSE, "None", "None")}
       ELSE LET found == discover_service(reg, service_type)
            IN IF found # {}
               THEN {ProxyOutcome("none", connect_address(protocol, host, service.port),
                                  TRUE, service_type, "None") : service \in found}
               ELSE {ProxyOutcome("RuntimeError", <<>>, TRUE, service_type, "None")}

\* PmxAProxy.__init__
PmxAProxy(cs_settings, reg) ==
    LET host == Get(cs_settings, "HOSTNAME", "localhost")
        protocol == Get(cs_settings, "PROTOCOL", "tcp")
        commanding_port == Get(cs_settings, "COMMANDING_PORT", "0")
        service_type == Get(cs_settings, "SERVICE_TYPE", "pmx_a_cs")
    IN IF commanding_port # "0"
       THEN {ProxyOutcome("none", connect_address(protocol, host, commanding_port),
                          FALSE, "None", "None")}
       ELSE LET found == discover_service(reg, service_type)
            IN IF found # {}
               THEN {ProxyOutcome("none",
                                  connect_address(Get(service, "protocol", "tcp"),
                                                  service.host, service.port),
                                  TRUE, service_type, "None") : service \in found}
               ELSE {ProxyOutcome("RuntimeError", <<>>, TRUE, service_type, "None")}

\* is_tgf4000_cs_active: False when no service is found, else the answer of
\* is_control_server_active for the endpoint (the server replies or not).
is_tgf4000_cs_active(cs_settings, reg) ==
    LET commanding_port == Get(cs_settings, "COMMANDING_PORT", "0")
        host == Get(cs_settings, "HOSTNAME", "localhost")
    IN IF commanding_port # "0"
       THEN {ProxyOutcome("none", connect_address("tcp", host, commanding_port),
                          FALSE, "None", active) : active \in {"True", "False"}}
       ELSE LET service_type == Get(cs_settings, "SERVICE_TYPE", "tgf4000_cs")
                found == discover_service(reg, service_type)
            IN IF found # {}
               THEN {ProxyOutcome("none",
                                  connect_address(Get(service, "protocol", "tcp"),
                                                  service.host, service.port),
                                  TRUE, service_type, active) :
                        service \in found, active \in {"True", "False"}}
               ELSE {ProxyOutcome("none", <<>>, TRUE, service_type, "False")}

\* The record of a proxy construction: its outcome and what it was given.
ProxyRecord(op, device, o) ==
    [op |-> op, device |-> device, exc |-> o.exc, endpoint |-> o.endpoint,
     consulted |-> o.consulted, looked_up |-> o.looked_up, ret |-> o.ret,
     registry |-> registry]

InitServices ==
    /\ settings \in [tgf4000 : SettingsBlocks, pmx_a : SettingsBlocks]
    /\ registry = {}
    /\ server = [state |-> "absent", service_type |-> "None", log |-> <<>>]
    /\ proxy = [op |-> "none"]
    /\ NoTransport /\ NoSimulators /\ NoArbData /\ NoParsing

\* start(): controller = Tgf4000ControlServer(device_id, simulator)
StartServer ==
    /\ server.state = "absent"
    /\ \E o \in ControlServerInit(settings.tgf4000, registry) :
         /\ registry' = o.registry
         /\ server' = o.server
    /\ UNCHANGED <<settings, proxy, transport, simulators, arbdata, parsing>>

\* start(): controller.serve()
Serve ==
    /\ server.state = "constructed"
    /\ server' = [server EXCEPT !.state = "serving"]
    /\ UNCHANGED <<settings, registry, proxy, transport, simulators, arbdata, parsing>>

\* Serving ends (quit_server of stop()): serve() calls after_serve() and returns.
ServeEnds ==
    /\ server.state = "serving"
    /\ LET o == AfterServe(server, registry)
       IN /\ registry' = o.registry
          /\ server' = [o.server EXCEPT !.state = "stopped"]
    /\ UNCHANGED <<settings, proxy, transport, simulators, arbdata, parsing>>

\* The PMX-A control server comes up and registers itself.
PmxServerUp ==
    /\ PmxEntry(settings.pmx_a) \notin registry
    /\ registry' = register_service(registry, PmxEntry(settings.pmx_a))
    /\ UNCHANGED <<settings, server, proxy, transport, simulators, arbdata, parsing>>

\* The PMX-A control server goes down.
PmxServerDown ==
    /\ PmxEntry(settings.pmx_a) \in registry
    /\ registry' = deregister_service(registry, "pmx_a_cs")
    /\ UNCHANGED <<settings, server, proxy, transport, simulators, arbdata, parsing>>

NewTgf4000Proxy ==
    /\ \E o \in Tgf4000Proxy(settings.tgf4000, registry) :
         proxy' = ProxyRecord("Tgf4000Proxy", "tgf4000", o)
    /\ UNCHANGED <<settings, registry, server, transport, simulators, arbdata, parsing>>

NewPmxAProxy ==
    /\ \E o \in PmxAProxy(settings.pmx_a, registry) :
         proxy' = ProxyRecord("PmxAProxy", "pmx_a", o)
    /\ UNCHANGED <<settings, registry, server, transport, simulators, arbdata, parsing>>

CheckActive ==
    /\ \E o \in is_tgf4000_cs_active(settings.tgf4000, registry) :
         proxy' = ProxyRecord("is_tgf4000_cs_active", "tgf4000", o)
    /\ UNCHANGED <<settings, registry, server, transport, simulators, arbdata, parsing>>

NextServices ==
    \/ StartServer
    \/ Serve
    \/ ServeEnds
    \/ PmxServerUp
    \/ PmxServerDown
    \/ NewTgf4000Proxy
    \/ NewPmxAProxy
    \/ CheckActive

SpecServices == InitServices /\ [][NextServices]_vars

-----------------------------------------------------------------------------
(* Simulators *)

\* The channel numbers set_channel is documented to take.
Channels == {1, 2}

\* Methods return [sim |-> the simulator's fields afterwards, ret |-> the result].

\* Tgf4000Simulator
TgfSimConnect(sim) == [sim |-> [sim EXCEPT !._is_connected = TRUE], ret |-> "None"]
TgfSimDisconnect(sim) == [sim |-> [sim EXCEPT !._is_connected = FALSE], ret |-> "None"]
TgfSimReconnectKeepsState(sim) == [sim |-> sim, ret |-> "None"]
TgfSimReconnect(sim) == [sim |-> [sim EXCEPT !._is_connected = TRUE], ret |-> "None"]
TgfSimIsConnected(sim) == [sim |-> sim, ret |-> sim._is_connected]
TgfSimIsSimulator(sim) == [sim |-> sim, ret |-> TRUE]
TgfSimSetChannel(sim, channel) == [sim |-> [sim EXCEPT !.channel = channel], ret |-> "None"]
TgfSimGetChannel(sim) == [sim |-> sim, ret |-> sim.channel]

\* Tgf4000Controller.is_simulator
TgfControllerIsSimulator == FALSE

\* PmxASimulator
PmxSimConnect(sim) == [sim |-> [sim EXCEPT !._is_connected = TRUE], ret |-> "None"]
PmxSimDisconnect(sim) == [sim |-> [sim EXCEPT !._is_connected = FALSE], ret |-> "None"]
PmxSimReconnect(sim) == [sim |-> [sim EXCEPT !._is_connected = TRUE], ret |-> "None"]
PmxSimIsConnected(sim) == [sim |-> sim, ret |-> sim._is_connected]
PmxSimIsSimulator(sim) == [sim |-> sim, ret |-> TRUE]

\* PmxAController.is_simulator
PmxControllerIsSimulator == FALSE

\* The record of a call: the object called, the method, its result and the
\* last connection call made on the object before it.
SimCall(target, op, ret, last) == [target |-> target, op |-> op, ret |-> ret, last |-> last]

InitSimulators ==
    /\ NoSimulators
    /\ NoTransport /\ NoServices /\ NoArbData /\ NoParsing

\* A call on the Tgf4000Simulator that is one of connect, disconnect, reconnect.
TgfCommit(op, o) ==
    /\ tgf4000_sim' = [o.sim EXCEPT !.last = IF op \in {"connect", "disconnect", "reconnect"}
                                             THEN op ELSE @]
    /\ sim_call' = SimCall("Tgf4000Simulator", op, o.ret, tgf4000_sim.last)
    /\ UNCHANGED <<pmx_a_sim, transport, services, arbdata, parsing>>

PmxCommit(op, o) ==
    /\ pmx_a_sim' = [o.sim EXCEPT !.last = IF op \in {"connect", "disconnect", "reconnect"}
                                           THEN op ELSE @]
    /\ sim_call' = SimCall("PmxASimulator", op, o.ret, pmx_a_sim.last)
    /\ UNCHANGED <<tgf4000_sim, transport, services, arbdata, parsing>>

TgfConnect == TgfCommit("connect", TgfSimConnect(tgf4000_sim))
TgfDisconnect == TgfCommit("disconnect", TgfSimDisconnect(tgf4000_sim))
TgfReconnect == TgfCommit("reconnect", TgfSimReconnect(tgf4000_sim))
TgfIsConnected == TgfCommit("is_connected", TgfSimIsConnected(tgf4000_sim))
TgfIsSimulator == TgfCommit("is_simulator", TgfSimIsSimulator(tgf4000_sim))
TgfSetChannel == \E channel \in Channels :
                    TgfCommit("set_channel", TgfSimSetChannel(tgf4000_sim, channel))
TgfGetChannel == TgfCommit("get_channel", TgfSimGetChannel(tgf4000_sim))

PmxConnect == PmxCommit("connect", PmxSimConnect(pmx_a_sim))
PmxDisconnect == PmxCommit("disconnect", PmxSimDisconnect(pmx_a_sim))
PmxReconnect == PmxCommit("reconnect", PmxSimReconnect(pmx_a_sim))
PmxIsConnected == PmxCommit("is_connected", PmxSimIsConnected(pmx_a_sim))
PmxIsSimulator == PmxCommit("is_simulator", PmxSimIsSimulator(pmx_a_sim))

\* is_simulator() of a controller; the controller's connection is the transport.
ControllerIsSimulator ==
    /\ \E c \in {<<"Tgf4000Controller", TgfControllerIsSimulator>>,
                 <<"PmxAController", PmxControllerIsSimulator>>} :
         sim_call' = SimCall(c[1], "is_simulator", c[2], "none")
    /\ UNCHANGED <<tgf4000_sim, pmx_a_sim, transport, services, arbdata, parsing>>

NextSimulators ==
    \/ TgfConnect
    \/ TgfDisconnect
    \/ TgfReconnect
    \/ TgfIsConnected
    \/ TgfIsSimulator
    \/ TgfSetChannel
    \/ TgfGetChannel
    \/ PmxConnect
    \/ PmxDisconnect
    \/ PmxReconnect
    \/ PmxIsConnected
    \/ PmxIsSimulator
    \/ ControllerIsSimulator

SpecSimulators == InitSimulators /\ [][NextSimulators]_vars

-----------------------------------------------------------------------------
(* ARB data *)

\* A str is a sequence of characters, a character is its code point;
\* a bytes object is a sequence of numbers 0..255.
Chr(code) == [cp |-> code]

\* Points the model puts in an array: 0x8000, 0xFFFF, 0x0102 and 0x7FFF as
\* signed 16 bit numbers.
Points == {-32768, -1, 258, 32767}

ToBytesLittleEndian(number) ==
    LET unsigned == number % 65536
    IN <<unsigned % 256, unsigned \div 256>>

\* number.to_bytes(length=2, byteorder="big", signed=True)
ToBytes(number) ==
    LET unsigned == number % 65536
    IN <<unsigned \div 256, unsigned % 256>>

\* ArbData.array_as_bytes
RECURSIVE array_as_bytes(_)
array_as_bytes(a) ==
    IF a = <<>> THEN <<>>
    ELSE array_as_bytes(SubSeq(a, 1, Len(a) - 1)) \o ToBytes(a[Len(a)])

\* bytes.decode(encoding="latin1", errors="ignore"): every byte is a character.
Latin1Decode(bytes) == [i \in 1..Len(bytes) |-> Chr(bytes[i])]

\* str(n) for n >= 0
RECURSIVE Str(_)
Str(n) == IF n < 10 THEN <<Chr(48 + n)>> ELSE Append(Str(n \div 10), Chr(48 + (n % 10)))

\* f"{n:1d}": decimal, padded with blanks to a width of at least 1
Format1d(n) == Str(n)

\* ArbData.string
String(a) ==
    LET byte_array == Latin1Decode(array_as_bytes(a))
        num_bytes == Len(byte_array)
        str_num_bytes == Str(num_bytes)
        len_num_bytes == Len(str_num_bytes)
    IN <<Chr(35)>> \o Format1d(len_num_bytes) \o str_num_bytes \o byte_array

\* str.encode(encoding="latin1"): a character above 255 cannot be encoded.
Latin1Encode(text) ==
    IF \E i \in 1..Len(text) : text[i].cp > 255
    THEN [exc |-> "UnicodeEncodeError", bytes |-> <<>>]
    ELSE [exc |-> "none", bytes |-> [i \in 1..Len(text) |-> text[i].cp]]

FromBytesUnsigned(hi, lo) == 256 * hi + lo

\* int.from_bytes(number, byteorder="big", signed=True) of two bytes
FromBytes(hi, lo) ==
    LET unsigned == 256 * hi + lo
    IN IF unsigned >= 32768 THEN unsigned - 65536 ELSE unsigned

\* ArbData.array_from_bytes for a str: the array it leaves in self.array
array_from_bytes(data) ==
    LET encoded == Latin1Encode(data)
        bytestring == encoded.bytes
        num_numbers == Len(bytestring) \div 2
    IN IF encoded.exc # "none"
       THEN [exc |-> encoded.exc, array |-> <<>>]
       ELSE [exc |-> "none",
             array |-> [index \in 1..num_numbers |->
                          FromBytes(bytestring[2 * index - 1], bytestring[2 * index])]]

\* ArbData.init_from_bytestring: bytestring[1] is the second character
init_from_bytestring(bytes) ==
    LET bytestring == Latin1Decode(bytes)
    IN IF Len(bytestring) < 2
       THEN [exc |-> "IndexError", array |-> <<>>]
       ELSE IF bytestring[2].cp \notin 48..57
       THEN [exc |-> "ValueError", array |-> <<>>]
       ELSE LET len_num_bytes == bytestring[2].cp - 48
                data == SubSeq(bytestring, 3 + len_num_bytes, Len(bytestring))
            IN array_from_bytes(data)

InitArb ==
    /\ NoArbData
    /\ NoTransport /\ NoServices /\ NoSimulators /\ NoParsing

\* array_from_hex_string: one more number is appended to the array.
AppendPoint ==
    /\ Len(array) < MaxPoints
    /\ \E number \in Points : array' = Append(array, number)
    /\ UNCHANGED <<block, restored, transport, services, simulators, parsing>>

\* arb_data.string is read.
ReadString ==
    /\ block' = [array |-> array, string |-> String(array)]
    /\ UNCHANGED <<array, restored, transport, services, simulators, parsing>>

\* A second ArbData reads the block back:
\* init_from_bytestring(arb_data.string.encode("latin1"))
ReadBlockBack ==
    /\ LET encoded == Latin1Encode(String(array))
           o == IF encoded.exc # "none"
                THEN [exc |-> encoded.exc, array |-> <<>>]
                ELSE init_from_bytestring(encoded.bytes)
       IN restored' = [op |-> "init_from_bytestring", source |-> array,
                       exc |-> o.exc, array |-> o.array]
    /\ UNCHANGED <<array, block, transport, services, simulators, parsing>>

\* A second ArbData reads the bytes back:
\* array_from_bytes(arb_data.array_as_bytes().decode("latin1"))
ReadBytesBack ==
    /\ LET o == array_from_bytes(Latin1Decode(array_as_bytes(array)))
       IN restored' = [op |-> "array_from_bytes", source |-> array,
                       exc |-> o.exc, array |-> o.array]
    /\ UNCHANGED <<array, block, transport, services, simulators, parsing>>

NextArb ==
    \/ AppendPoint
    \/ ReadString
    \/ ReadBlockBack
    \/ ReadBytesBack

SpecArb == InitArb /\ [][NextArb]_vars

-----------------------------------------------------------------------------
(* Response parsing *)

\* The bytes a response is made of: '1', ',', ' ', CR, LF and 'x'.
ResponseBytes == {49, 44, 32, 13, 10, 120}

Responses == UNION {[1..n -> ResponseBytes] : n \in 0..MaxResponse}

\* str.replace(old, "") for a character old
Remove(text, old) ==
    LET Keep(ch) == ch # old
    IN SelectSeq(text, Keep)

\* Whether text has the two characters of delimiter at position i.
DelimiterAt(text, delimiter, i) ==
    /\ i + Len(delimiter) - 1 <= Len(text)
    /\ SubSeq(text, i, i + Len(delimiter) - 1) = delimiter

\* str.split(delimiter): cut at the occurrences of delimiter, from the left.
RECURSIVE Split(_, _)
Split(text, delimiter) ==
    LET hits == {i \in 1..Len(text) : DelimiterAt(text, delimiter, i)}
    IN IF hits = {} THEN <<text>>
       ELSE LET i == CHOOSE h \in hits : \A k \in hits : h <= k
            IN <<SubSeq(text, 1, i - 1)>>
                 \o Split(SubSeq(text, i + Len(delimiter), Len(text)), delimiter)

\* What a parse function gives back: exc is the exception it raises or
\* "none"; shape tells a list, a tuple, a single value and None apart.
Returns(shape, items) == [exc |-> "none", shape |-> shape, items |-> items]
Raises(exc) == [exc |-> exc, shape |-> "raise", items |-> <<>>]

UnpackOnComma(bytes) ==
    IF Len(bytes) = 0
    THEN Returns("None", <<>>)
    ELSE Returns("list",
                 Split(Remove(Remove(Latin1Decode(bytes), Chr(13)), Chr(10)),
                       <<Chr(44)>>))

\* unpack_response
unpack_response(bytes) ==
    IF Len(bytes) = 0
    THEN Returns("None", <<>>)
    ELSE Returns("list",
                 Split(Remove(Remove(Latin1Decode(bytes), Chr(13)), Chr(10)),
                       <<Chr(44), Chr(32)>>))

\* str.strip() of the blanks int() and float() skip around a number
RECURSIVE StripBlanks(_)
StripBlanks(text) ==
    IF text = <<>> THEN text
    ELSE IF Head(text) = Chr(32) THEN StripBlanks(Tail(text))
    ELSE IF text[Len(text)] = Chr(32) THEN StripBlanks(SubSeq(text, 1, Len(text) - 1))
    ELSE text

\* Whether int(item) and float(item) accept the item: digits, blanks around.
IsNumber(item) ==
    LET digits == StripBlanks(item)
    IN /\ digits # <<>>
       /\ \A i \in 1..Len(digits) : digits[i].cp \in 48..57

RECURSIVE DigitsValue(_)
DigitsValue(digits) ==
    IF digits = <<>> THEN 0
    ELSE 10 * DigitsValue(SubSeq(digits, 1, Len(digits) - 1))
           + (digits[Len(digits)].cp - 48)

\* int(item) and float(item) of an accepted item
ToInt(item) == [type |-> "int", value |-> DigitsValue(StripBlanks(item))]
ToFloat(item) == [type |-> "float", value |-> DigitsValue(StripBlanks(item))]

\* The last lines of the three parse functions.
ValueOrTuple(items) ==
    IF Len(items) = 1 THEN Returns("value", <<items[1]>>) ELSE Returns("tuple", items)

\* parse_ints: enumerate(None) raises TypeError, int() raises ValueError
parse_ints(bytes) ==
    LET unpacked == unpack_response(bytes)
    IN IF unpacked.shape = "None" THEN Raises("TypeError")
       ELSE IF \E i \in 1..Len(unpacked.items) : ~IsNumber(unpacked.items[i])
       THEN Raises("ValueError")
       ELSE ValueOrTuple([i \in 1..Len(unpacked.items) |-> ToInt(unpacked.items[i])])

\* parse_floats
parse_floats(bytes) ==
    LET unpacked == unpack_response(bytes)
    IN IF unpacked.shape = "None" THEN Raises("TypeError")
       ELSE IF \E i \in 1..Len(unpacked.items) : ~IsNumber(unpacked.items[i])
       THEN Raises("ValueError")
       ELSE ValueOrTuple([i \in 1..Len(unpacked.items) |-> ToFloat(unpacked.items[i])])

\* parse_strings: len(None) raises TypeError
parse_strings(bytes) ==
    LET unpacked == unpack_response(bytes)
    IN IF unpacked.shape = "None" THEN Raises("TypeError")
       ELSE ValueOrTuple(unpacked.items)

ParseRecord(op, o) == [op |-> op, exc |-> o.exc, shape |-> o.shape, items |-> o.items]

InitParse ==
    /\ response \in Responses
    /\ parsed = [op |-> "none"]
    /\ NoTransport /\ NoServices /\ NoSimulators /\ NoArbData

UnpackResponse ==
    /\ parsed' = ParseRecord("unpack_response", unpack_response(response))
    /\ UNCHANGED <<response, transport, services, simulators, arbdata>>

ParseInts ==
    /\ parsed' = ParseRecord("parse_ints", parse_ints(response))
    /\ UNCHANGED <<response, transport, services, simulators, arbdata>>

ParseFloats ==
    /\ parsed' = ParseRecord("parse_floats", parse_floats(response))
    /\ UNCHANGED <<response, transport, services, simulators, arbdata>>

ParseStrings ==
    /\ parsed' = ParseRecord("parse_strings", parse_strings(response))
    /\ UNCHANGED <<response, transport, services, simulators, arbdata>>

NextParse ==
    \/ UnpackResponse
    \/ ParseInts
    \/ ParseFloats
    \/ ParseStrings

SpecParse == InitParse /\ [][NextParse]_vars

-----------------------------------------------------------------------------
(* Properties *)

Called(ops) == call.op \in ops
Returned(ops) == Called(ops) /\ call.exc = "none"

\* Events of the last call.
CloseFailed == \E i \in 1..Len(call.trace) : call.trace[i][1] = "close" /\ call.trace[i][3] # "ok"
Events(what) == {i \in 1..Len(call.trace) : call.trace[i][1] = what}
NumConnected == Cardinality({i \in 1..Len(socks) : socks[i] = "connected"})

\* C1: the value a trans call returns is made of bytes of the device's reply
\* to the command that this call sent, never of the reply to an earlier command.
C1_TransReturnsOwnReply ==
    (Returned({"trans"}) /\ IsQuery(call.cmd)) =>
        \A i \in 1..Len(call.ret) : call.ret[i].req = call.req

\* C2: when no reply arrives within read_timeout, trans raises
\* DeviceTimeoutError instead of returning a value.
C2_TimeoutRaises ==
    (Called({"trans"}) /\ IsQuery(call.cmd) /\ call.req # 0 /\ call.read.timedout) =>
        call.exc = "DeviceTimeoutError"

\* C3: every command of Tgf4000Interface whose command string ends with '?' is
\* declared as a TRANSACTION, so a query is never sent with write, which would
\* leave its reply unread.
C3_QueriesAreTransactions ==
    (Called({"write", "trans"}) /\ call.method # "None" /\ IsQuery(call.cmd)) =>
        (call.cmd_type = "TRANSACTION" /\ call.op = "trans")

\* C4: read returns every byte it received: when the reply came in several
\* recv chunks, the value returned is all chunks joined in order.
C4_ReadReturnsAllChunks ==
    (Called({"read", "trans"}) /\ call.read.nrecv >= 1 /\ ~call.read.timedout) =>
        call.read.ret = call.read.all

\* C5: the bytes write and trans put on the socket are the command followed by
\* a line feed, appended exactly when the command does not end with one; they
\* end with a line feed and terminating them again changes nothing.
C5_CommandTerminated ==
    (Called({"write", "trans"}) /\ call.sent # <<>>) =>
        LET data == call.sent[1]
        IN /\ Len(call.sent) = 1
           /\ EndsWith(call.cmd, LF) => data = call.cmd
           /\ ~EndsWith(call.cmd, LF) => data = call.cmd \o <<LF>>
           /\ EndsWith(data, LF)
           /\ Terminate(data) = data

C5_Witness ==
    /\ Called({"trans"})
    /\ call.method = "None"
    /\ ~EndsWith(call.cmd, LF)
    /\ call.sent = <<call.cmd \o <<LF>>>>

\* C6: after the TCP connection succeeded, connect returns normally only if the
\* device identified itself properly, leaving the connection open; otherwise
\* it has disconnected (flag False, socket closed) and raises
\* DeviceConnectionError.  (Stated for the calls in which closing the socket
\* did not fail.)
C6_ConnectChecksIdentity ==
    (Called({"connect"}) /\ call.tcp = "ok" /\ ~CloseFailed) =>
        IF call.idn = "True"
        THEN call.exc = "none" /\ is_connection_open
        ELSE /\ call.exc = "DeviceConnectionError"
             /\ ~is_connection_open
             /\ socks[sock] = "closed"

\* C7: is_connected never raises and returns a boolean.  (Stated for the calls
\* in which closing the socket did not fail.)
C7_IsConnectedNeverRaises ==
    (Called({"is_connected"}) /\ ~CloseFailed) =>
        call.exc = "none" /\ call.ret \in {"True", "False"}

\* C8: whenever is_connected returns False the connection flag is False
\* afterwards, and if the connection was open the socket has been closed; the
\* same holds for the is_connected call that connect makes.
C8_FalseMeansClosed ==
    /\ (Returned({"is_connected"}) /\ call.ret = "False") =>
           /\ ~is_connection_open
           /\ call.was_open => (Events("close") # {} /\ socks[sock] = "closed")
    /\ (Called({"connect", "reconnect"}) /\ call.idn = "False") =>
           (~is_connection_open /\ socks[sock] = "closed")

C8_Witness ==
    /\ Returned({"is_connected"})
    /\ call.ret = "False"
    /\ call.was_open
    /\ call.sent = <<Terminate(IDENTIFICATION_QUERY), Terminate(IDENTIFICATION_QUERY)>>

\* C9: a connect that fails at socket.connect raises DeviceTimeoutError for a
\* timeout and DeviceConnectionError for a refused connection, an address
\* error or any other OSError; the connection flag is False and socket.connect
\* was tried once.
C9_FailedConnect ==
    (Called({"connect", "reconnect"}) /\ call.tcp \notin {"None", "ok"}) =>
        /\ call.exc = IF call.tcp = "TimeoutError" THEN "DeviceTimeoutError"
                      ELSE "DeviceConnectionError"
        /\ ~is_connection_open
        /\ Cardinality(Events("connect")) = 1
        /\ call.sent = <<>>

C9_Witness ==
    /\ Called({"connect"})
    /\ call.tcp = "TimeoutError"
    /\ call.exc = "DeviceTimeoutError"
    /\ ~is_connection_open

\* C10: reconnect closes the open socket before it opens a new one, so that
\* two sockets are never connected at once; when it returns normally the
\* connection is open, and when the connect step fails the error reaches the
\* caller with the interface not connected.  (Stated for the calls in which
\* closing a socket did not fail.)
C10_ReconnectIsDisconnectThenConnect ==
    (Called({"reconnect"}) /\ ~CloseFailed) =>
        /\ call.was_open =>
              (call.trace # <<>> /\ call.trace[1] = <<"close", call.had_sock, "ok">>)
        /\ NumConnected <= 1
        /\ call.exc = "none" => is_connection_open
        /\ call.exc # "none" => ~is_connection_open


C12_DisconnectIdempotent ==
    Called({"disconnect"}) =>
        /\ call.exc = "none" => ~is_connection_open
        /\ ~call.was_open => (call.exc = "none" /\ call.trace = <<>> /\ call.unchanged)
        /\ CloseFailed => call.exc = "DeviceConnectionError"
        /\ call.was_open =>
              /\ Len(call.trace) = 1
              /\ call.trace[1][1] = "close" /\ call.trace[1][2] = call.had_sock
              /\ socks[call.had_sock] = "closed"

C12_Witness ==
    /\ Returned({"disconnect"})
    /\ ~call.was_open
    /\ call.had_sock # 0
    /\ socks[call.had_sock] = "closed"
    /\ ~is_connection_open

\* C13: connect raises ValueError when the hostname is None or empty or the
\* port is None or 0, before any socket is created: socket handle and
\* connection flag, and the rest of the connection state, are unchanged.
C13_ConnectNeedsHostAndPort ==
    (Called({"connect"}) /\ (hostname \in {"None", ""} \/ port \in {"None", "0"})) =>
        /\ call.exc = "ValueError"
        /\ call.trace = <<>>
        /\ call.sent = <<>>
        /\ call.unchanged

C13_Witness ==
    /\ Called({"connect"})
    /\ hostname = ""
    /\ port = "5025"
    /\ call.exc = "ValueError"
    /\ socks = <<>>

\* C14: connect on an open connection returns without creating a socket,
\* without sending anything and without changing the socket handle or the
\* connection flag.
C14_ConnectOnOpenIsNoOp ==
    (Called({"connect"}) /\ call.was_open) =>
        /\ call.exc = "none"
        /\ call.trace = <<>>
        /\ call.sent = <<>>
        /\ call.unchanged

C14_Witness ==
    /\ Returned({"connect"})
    /\ call.was_open
    /\ is_connection_open
    /\ call.trace = <<>>
    /\ call.sent = <<>>

\* C15: the command table maps commands one-to-one onto methods: the method
\* called is declared once, so that no declaration is shadowed by a later one
\* of the same name, and no method of another name sends the same command
\* string.
C15_OneToOne ==
    (Called({"write", "trans"}) /\ call.method # "None") =>
        /\ Cardinality(Declarations(call.method)) = 1
        /\ \A i \in 1..Len(CommandTable) :
              CommandTable[i].cmd_string = call.cmd => CommandTable[i].method = call.method

C17_ProxyEndpoint ==
    proxy.op \in {"Tgf4000Proxy", "PmxAProxy"} =>
        LET cs_settings == settings[proxy.device]
            fixed == /\ "COMMANDING_PORT" \in DOMAIN cs_settings
                     /\ cs_settings.COMMANDING_PORT # "0"
            candidates == {e \in proxy.registry : e.service_type = proxy.looked_up}
        IN /\ fixed =>
                /\ proxy.exc = "none"
                /\ ~proxy.consulted
                /\ proxy.endpoint =
                      << IF "PROTOCOL" \in DOMAIN cs_settings
                         THEN cs_settings.PROTOCOL ELSE "tcp",
                         IF "HOSTNAME" \in DOMAIN cs_settings
                         THEN cs_settings.HOSTNAME ELSE "localhost",
                         cs_settings.COMMANDING_PORT >>
           /\ (~fixed /\ candidates # {}) =>
                /\ proxy.exc = "none"
                /\ \E e \in candidates :
                      proxy.endpoint[2] = e.host /\ proxy.endpoint[3] = e.port
           /\ (~fixed /\ candidates = {}) =>
                /\ proxy.exc = "RuntimeError"
                /\ proxy.endpoint = <<>>

\* A proxy with commanding port 0 found a service and connected to it.
C17_Witness ==
    /\ proxy.op \in {"Tgf4000Proxy", "PmxAProxy"}
    /\ proxy.consulted
    /\ proxy.exc = "none"
    /\ proxy.endpoint # <<>>

\* C18: a new simulator is connected; is_connected of a simulator returns
\* False exactly when the last of its connect, disconnect and reconnect calls
\* was disconnect; is_simulator returns True on a simulator and False on a
\* controller.
C18_SimulatorConnection ==
    /\ tgf4000_sim.last = "none" => tgf4000_sim._is_connected
    /\ pmx_a_sim.last = "none" => pmx_a_sim._is_connected
    /\ sim_call.op = "is_connected" =>
          (sim_call.ret = FALSE <=> sim_call.last = "disconnect")
    /\ sim_call.op = "is_simulator" =>
          (sim_call.ret <=> sim_call.target \in {"Tgf4000Simulator", "PmxASimulator"})

\* is_connected was asked after a disconnect that was followed by a reconnect
\* on the one simulator, while the other simulator is disconnected.
C18_Witness ==
    /\ sim_call.op = "is_connected"
    /\ sim_call.last = "reconnect"
    /\ sim_call.ret = TRUE
    /\ tgf4000_sim._is_connected # pmx_a_sim._is_connected

\* C19: the channel selected in a Tgf4000Simulator, which get_channel returns,
\* is 1 or 2 in every state, the initial one included.
C19_ChannelIsOneOrTwo ==
    /\ tgf4000_sim.channel \in Channels
    /\ sim_call.op = "get_channel" => sim_call.ret \in Channels

\* The number a sequence of decimal digit characters writes.
RECURSIVE Decimal(_)
Decimal(digits) ==
    IF digits = <<>> THEN 0
    ELSE 10 * Decimal(SubSeq(digits, 1, Len(digits) - 1)) + (digits[Len(digits)].cp - 48)

\* C20: ArbData.string is '#', one digit d, the decimal number L in exactly d
\* digits, then the data; L is the number of data bytes, twice the number of
\* array elements, and every element is two bytes, high byte first.
C20_LengthPrefixedBlock ==
    block.string # <<>> =>
        LET s == block.string
            d == s[2].cp - 48
            L == Decimal(SubSeq(s, 3, 2 + d))
            data == SubSeq(s, 3 + d, Len(s))
        IN /\ s[1].cp = 35
           /\ d \in 1..9
           /\ Len(s) >= 2 + d
           /\ \A i \in 3..(2 + d) : s[i].cp \in 48..57
           /\ L = Len(data)
           /\ L = 2 * Len(block.array)
           /\ \A i \in 1..Len(block.array) :
                 /\ data[2 * i - 1].cp \in 0..255
                 /\ data[2 * i].cp \in 0..255
                 /\ 256 * data[2 * i - 1].cp + data[2 * i].cp = block.array[i] % 65536

\* A block whose length takes two digits and that holds a negative number
\* and a number with different high and low bytes.
C20_Witness ==
    /\ block.string # <<>>
    /\ block.string[2].cp = 50
    /\ \E i \in 1..Len(block.array) : block.array[i] < 0
    /\ \E i \in 1..Len(block.array) : block.array[i] = 258

\* The response as text without its carriage returns and line feeds.
WithoutTerminators(bytes) ==
    LET NoTerminator(ch) == ch.cp \notin {13, 10}
    IN SelectSeq([i \in 1..Len(bytes) |-> [cp |-> bytes[i]]], NoTerminator)

\* The fields put together again with ', ' between them.
RECURSIVE Joined(_)
Joined(fields) ==
    IF Len(fields) = 1 THEN fields[1]
    ELSE Joined(SubSeq(fields, 1, Len(fields) - 1))
           \o <<[cp |-> 44], [cp |-> 32]>> \o fields[Len(fields)]

\* fields are the fields of text: no field holds ', ' and together they are text.
IsFieldsOf(fields, text) ==
    /\ Len(fields) >= 1
    /\ Joined(fields) = text
    /\ \A k \in 1..Len(fields) : \A i \in 1..Len(fields[k]) - 1 :
          ~(fields[k][i].cp = 44 /\ fields[k][i + 1].cp = 32)

C22_ProxyFindsServer ==
    ( /\ proxy.op = "Tgf4000Proxy"
      /\ "SERVICE_TYPE" \notin DOMAIN settings.tgf4000
      /\ Get(settings.tgf4000, "COMMANDING_PORT", "0") = "0"
      /\ \E e \in proxy.registry : e.id = "tgf4000_cs" ) =>
        LET entry == CHOOSE e \in proxy.registry : e.id = "tgf4000_cs"
        IN /\ proxy.looked_up = entry.service_type
           /\ proxy.exc = "none"
           /\ proxy.endpoint = <<entry.protocol, entry.host, entry.port>>

\* The sockets the interface created that are not closed.
OpenSockets == {i \in 1..Len(socks) : socks[i] # "closed"}

\* C23: whenever the connection flag is False every socket the interface
\* created is closed, also after a connect that failed at the TCP level, and
\* at most one socket the interface created is open at any time.
C23_NoSocketOpenWhileDisconnected ==
    /\ ~is_connection_open => OpenSockets = {}
    /\ Cardinality(OpenSockets) <= 1

\* C24: for every array of 16 bit signed numbers, init_from_bytestring of the
\* latin-1 encoding of ArbData.string, and array_from_bytes of the latin-1
\* decoding of array_as_bytes(), give the same array back.
C24_BlockRoundTrip ==
    restored.op \in {"init_from_bytestring", "array_from_bytes"} =>
        /\ restored.exc = "none"
        /\ restored.array = restored.source

\* A block with a two-digit length, a negative number and the largest
\* number was read back with its header.
C24_Witness ==
    /\ restored.op = "init_from_bytestring"
    /\ Len(restored.source) >= 5
    /\ \E i \in 1..Len(restored.source) : restored.source[i] < 0
    /\ \E i \in 1..Len(restored.source) : restored.source[i] = 32767
    /\ restored.array = restored.source

=============================================================================
